---- MODULE Spec2Model ----
(***************************************************************************)
(* Model of the Multicast Routing Manager of ot-br-posix                   *)
(* (src/backbone_router/multicast_routing.hpp/.cpp) together with the      *)
(* part of the Linux MRT6 interface it drives: the router socket, the      *)
(* kernel Multicast Forwarding Cache and the per-route counters.           *)
(***************************************************************************)
EXTENDS Integers, Sequences, FiniteSets, TLC

VARIABLES
    mMulticastRouterSock,        \* int: -1 or the descriptor of the router socket
    mListenerSet,                \* std::set<Ip6Address>
    mMulticastForwardingCache,   \* std::map<MulticastRoute, MulticastRouteInfo>
    kSocks,                      \* kernel: open descriptors -> socket configuration
    kMfc,                        \* kernel: (origin, mcastgrp) -> [parent, ifset]
    now,                         \* steady clock, in seconds
    op,                          \* the operation that produced this state
    calls,                       \* the system calls that operation issued, in order
    edStage,                     \* progress of the call sequence Enable; Disable; Enable
    env,                         \* the surroundings: multicast flows on the links, clock steps
    refreshed,                   \* route -> the counters read by the expiry pass that last refreshed it
    loop,                        \* the mainloop's fd sets, max fd and timeout
    queue,                       \* kernel: the messages waiting on the router socket, oldest first
    smc,                         \* the SMCRouteManager and the routes of the smcroute daemon
    agent,                       \* the BackboneAgent and the Thread stack it listens to
    cmp,                         \* three MulticastRoute values and the results of comparing them
    proxy,                       \* the DiscoveryProxy and the mDNS publisher it subscribes at
    poller,                      \* the Poller's timers, the clock and the mainloop's timeout
    addr                         \* an Ip6Address, the host's byte order and what its queries return

(* The objects that are exercised on their own *)
libs == <<cmp, proxy, poller, addr>>

(* The Multicast Routing Manager, the kernel and the agent around it *)
mrm == <<mMulticastRouterSock, mListenerSet, mMulticastForwardingCache,
         kSocks, kMfc, now, op, calls, edStage, env, refreshed, loop,
         queue, smc, agent>>

vars == <<mMulticastRouterSock, mListenerSet, mMulticastForwardingCache,
          kSocks, kMfc, now, op, calls, edStage, env, refreshed, loop,
          queue, smc, agent, cmp, proxy, poller, addr>>

----------------------------------------------------------------------------
(* Bounds of the model *)

FirstFreeFd == 3
MaxQueue == 2
MaxTime == 301
MaxPkt == 2
MaxWrongIf == 1
MaxTimers == 2
MaxSubscriptions == 3

(* Program constants *)

OT_BACKBONE_ROUTER_STATE_DISABLED == "Disabled"
OT_BACKBONE_ROUTER_STATE_SECONDARY == "Secondary"
OT_BACKBONE_ROUTER_STATE_PRIMARY == "Primary"

kMulticastForwardingCacheExpireTimeout == 300
kMifIndexNone == 255
kMifIndexThread == 0
kMifIndexBackbone == 1
kRealmLocalScope == 3
kLinkLocalScope == 2
kNodeLocalScope == 1
kGlobalScope == 14
MRT6MSG_NOCACHE == 1
MRT6MSG_WRONGMIF == 2
InvalidSock == -1

----------------------------------------------------------------------------
(* Ip6Address: 16 bytes m8[0..15], here a tuple indexed 1..16 *)

Ip6(b0, b1, b2, b3, b14, b15) ==
    <<b0, b1, b2, b3, 0, 0, 0, 0, 0, 0, 0, 0, 0, 0, b14, b15>>

NoAddr == <<>>

FD00_1 == Ip6(253, 0, 0, 0, 0, 1)             \* fd00::1
DB8_1 == Ip6(32, 1, 13, 184, 0, 1)            \* 2001:db8::1
FF03_FC == Ip6(255, 3, 0, 0, 0, 252)          \* ff03::fc   (realm-local)
FF0E_1 == Ip6(255, 14, 0, 0, 0, 1)            \* ff0e::1    (global)

Srcs == {FD00_1, DB8_1}
Groups == {FF03_FC, FF0E_1}

(* The multicast flows present on the two links, (source, group), and the *)
(* steps by which the clock advances between two operations               *)
(* and up to which time, whether system calls may fail, and whether the    *)
(* counters read by refreshing expiry passes are recorded                  *)
MainEnv ==
    [flows |-> {<<FD00_1, FF03_FC>>, <<FD00_1, FF0E_1>>},
     ticks |-> {kMulticastForwardingCacheExpireTimeout + 1},
     horizon |-> MaxTime, faults |-> TRUE, track |-> FALSE, ndebug |-> FALSE]

(* The same surroundings with every system call succeeding *)
NoFaultEnv == [MainEnv EXCEPT !.faults = FALSE]

(* Long enough for two expiry passes over the same entry, every system call *)
(* succeeding                                                               *)
ExpiryEnv == [NoFaultEnv EXCEPT !.horizon = 2 * MaxTime, !.track = TRUE]

(* One flow whose packets arrive on either interface, every system call     *)
(* succeeding                                                               *)
QueueEnv == [NoFaultEnv EXCEPT !.flows = {<<FD00_1, FF0E_1>>}]

(* The clock advances by exactly the timeout, twice, every system call      *)
(* succeeding: an entry is exactly 300 s old after one step and past the    *)
(* timeout after two                                                        *)
BoundaryEnv ==
    [NoFaultEnv EXCEPT !.ticks = {kMulticastForwardingCacheExpireTimeout},
                       !.horizon = 2 * kMulticastForwardingCacheExpireTimeout]

(* A build with NDEBUG, in which assert() expands to nothing *)
NdebugEnv == [NoFaultEnv EXCEPT !.ndebug = TRUE]

(* Two sources sending to the same group *)
UnblockEnv == [MainEnv EXCEPT !.flows = {<<FD00_1, FF0E_1>>, <<DB8_1, FF0E_1>>}]

(* socket() returns the lowest descriptor the process has free *)
Fds == {FirstFreeFd}

RECURSIVE BitAnd(_, _)
BitAnd(x, y) ==
    IF x = 0 \/ y = 0 THEN 0
    ELSE (x % 2) * (y % 2) + 2 * BitAnd(x \div 2, y \div 2)

(* A 32-bit value is kept as <<high 16 bits, low 16 bits>>. *)
U32(hi, lo) == <<hi, lo>>
And32(a, b) == <<BitAnd(a[1], b[1]), BitAnd(a[2], b[2])>>

(* htonl: the identity on a big-endian host, a byte swap on a little-endian one *)
Htonl(v, littleEndian) ==
    IF littleEndian
    THEN U32((v[2] % 256) * 256 + (v[2] \div 256), (v[1] % 256) * 256 + (v[1] \div 256))
    ELSE v

(* m16[i] and m32[i]: the union members of Ip6Address read in host byte order *)
M16(a, i, littleEndian) ==
    IF littleEndian THEN a[2 * i + 1] + 256 * a[2 * i + 2]
    ELSE 256 * a[2 * i + 1] + a[2 * i + 2]

M32(a, i, littleEndian) ==
    IF littleEndian THEN U32(M16(a, 2 * i + 1, TRUE), M16(a, 2 * i, TRUE))
    ELSE U32(M16(a, 2 * i, FALSE), M16(a, 2 * i + 1, FALSE))

IsMulticast(a) == a[1] = 255

IsLoopback(a, littleEndian) ==
    /\ M32(a, 0, littleEndian) = U32(0, 0)
    /\ M32(a, 1, littleEndian) = U32(0, 0)
    /\ M32(a, 2, littleEndian) = U32(0, 0)
    /\ M32(a, 3, littleEndian) = Htonl(U32(0, 1), littleEndian)

IsLinkLocal(a, littleEndian) ==
    And32(U32(0, M16(a, 0, littleEndian)), Htonl(U32(0, 65472), littleEndian))
        = Htonl(U32(0, 65152), littleEndian)

GetScope(a, littleEndian) ==
    IF IsMulticast(a) THEN a[2] % 16
    ELSE IF IsLinkLocal(a, littleEndian) THEN kLinkLocalScope
    ELSE IF IsLoopback(a, littleEndian) THEN kNodeLocalScope
    ELSE kGlobalScope

RECURSIVE BytesLess(_, _, _)
BytesLess(a, b, i) ==
    IF i > 16 THEN FALSE
    ELSE IF a[i] # b[i] THEN a[i] < b[i]
    ELSE BytesLess(a, b, i + 1)

Ip6AddressLess(a, b) == BytesLess(a, b, 1)

----------------------------------------------------------------------------
(* MulticastRoute and MulticastRouteInfo *)

MulticastRoute(aSrcAddr, aGroupAddr) == [mSrcAddr |-> aSrcAddr, mGroupAddr |-> aGroupAddr]

MulticastRouteLess_SrcFirst(a, b) ==
    IF a.mSrcAddr # b.mSrcAddr THEN Ip6AddressLess(a.mSrcAddr, b.mSrcAddr)
    ELSE IF a.mGroupAddr # b.mGroupAddr THEN Ip6AddressLess(a.mGroupAddr, b.mGroupAddr)
    ELSE FALSE

MulticastRouteLess(a, b) ==
    IF a.mGroupAddr # b.mGroupAddr THEN Ip6AddressLess(a.mGroupAddr, b.mGroupAddr)
    ELSE IF a.mSrcAddr # b.mSrcAddr THEN Ip6AddressLess(a.mSrcAddr, b.mSrcAddr)
    ELSE FALSE

MulticastRouteInfo(aIif, aOif, t) ==
    [mLastUseTime |-> t, mValidPktCnt |-> 0, mOif |-> aOif, mIif |-> aIif]

(* The keys of a std::map in iteration order *)
RECURSIVE MapOrder(_)
MapOrder(S) ==
    IF S = {} THEN <<>>
    ELSE LET first == CHOOSE r \in S : \A q \in S \ {r} : MulticastRouteLess(r, q)
         IN <<first>> \o MapOrder(S \ {first})

MapPut(f, k, v) == [x \in DOMAIN f \cup {k} |-> IF x = k THEN v ELSE f[x]]
MapErase(f, k) == [x \in DOMAIN f \ {k} |-> f[x]]
EmptyMap == [x \in {} |-> 0]

----------------------------------------------------------------------------
(* The kernel side: system calls.  A machine value m gathers what one       *)
(* handler reads and writes: the manager's fields, the kernel tables and    *)
(* the log of calls issued so far.                                          *)

Call(name, origin, grp, parent, ifset, a, b, ret) ==
    [call |-> name, origin |-> origin, mcastgrp |-> grp, parent |-> parent,
     ifset |-> ifset, arg1 |-> a, arg2 |-> b, ret |-> ret]

Log(m, c) == [m EXCEPT !.calls = Append(@, c)]

NewSock == [mrtInit |-> FALSE, filter |-> FALSE, mifs |-> EmptyMap]

(* close(fd): closing the multicast-router socket drops the kernel MFC *)
SysClose(m, fd) ==
    LET wasRouter == fd \in DOMAIN m.ks /\ m.ks[fd].mrtInit
    IN Log([m EXCEPT !.ks = MapErase(@, fd),
                     !.kmfc = IF wasRouter THEN EmptyMap ELSE @],
           Call("close", NoAddr, NoAddr, kMifIndexNone, {}, fd, 0, "OK"))

(* setsockopt(MRT6_ADD_MFC): install or overwrite the entry (origin, mcastgrp) *)
SysAddMfc(m, route, parent, ifset, ok) ==
    Log(IF ok THEN [m EXCEPT !.kmfc = MapPut(@, route, [parent |-> parent, ifset |-> ifset])]
        ELSE m,
        Call("MRT6_ADD_MFC", route.mSrcAddr, route.mGroupAddr, parent, ifset, 0, 0,
             IF ok THEN "OK" ELSE "EOTHER"))

(* errno of setsockopt(MRT6_DEL_MFC): ENOENT when the kernel has no such entry *)
DelMfcErrno(m, route, fails) ==
    IF fails THEN "EOTHER"
    ELSE IF route \in DOMAIN m.kmfc THEN "OK" ELSE "ENOENT"

SysDelMfc(m, route, parent, fails) ==
    LET ret == DelMfcErrno(m, route, fails)
    IN Log(IF ret = "OK" THEN [m EXCEPT !.kmfc = MapErase(@, route)] ELSE m,
           Call("MRT6_DEL_MFC", route.mSrcAddr, route.mGroupAddr, parent, {}, 0, 0, ret))

----------------------------------------------------------------------------
(* Router socket set-up and tear-down *)

IsEnabled(sock) == sock >= 0

FinalizeMulticastRouterSock(m) ==
    IF m.sock = InvalidSock THEN m
    ELSE [SysClose(m, m.sock) EXCEPT !.sock = InvalidSock]

SetupSteps == <<"socket", "MRT6_INIT", "ICMP6_FILTER",
                "if_nametoindex_thread", "MRT6_ADD_MIF_thread",
                "if_nametoindex_backbone", "MRT6_ADD_MIF_backbone">>

FailPoints == {SetupSteps[i] : i \in 1..Len(SetupSteps)} \cup {"none"}

SetupCall(step, fd, ret) == Call(step, NoAddr, NoAddr, kMifIndexNone, {}, fd, 0, ret)

(* The effect of one successful set-up step *)
SetupStep(m, step, fd) ==
    LET m1 ==
        CASE step = "socket" ->
                [m EXCEPT !.sock = fd, !.ks = MapPut(@, fd, NewSock)]
          [] step = "MRT6_INIT" ->
                [m EXCEPT !.ks[m.sock].mrtInit = TRUE]
          [] step = "ICMP6_FILTER" ->
                [m EXCEPT !.ks[m.sock].filter = TRUE]
          [] step = "MRT6_ADD_MIF_thread" ->
                [m EXCEPT !.ks[m.sock].mifs = MapPut(@, kMifIndexThread, "thread")]
          [] step = "MRT6_ADD_MIF_backbone" ->
                [m EXCEPT !.ks[m.sock].mifs = MapPut(@, kMifIndexBackbone, "backbone")]
          [] OTHER -> m
    IN Log(m1, SetupCall(step, m1.sock, "OK"))

(* The effect of the step that fails: socket() stores -1 in the descriptor *)
SetupFail(m, step) ==
    Log(IF step = "socket" THEN [m EXCEPT !.sock = InvalidSock] ELSE m,
        SetupCall(step, m.sock, "EOTHER"))

RECURSIVE RunSetup(_, _, _, _)
RunSetup(m, i, fd, failAt) ==
    IF i > Len(SetupSteps) THEN [m |-> m, error |-> "NONE"]
    ELSE IF SetupSteps[i] = failAt THEN [m |-> SetupFail(m, failAt), error |-> "ERRNO"]
    ELSE RunSetup(SetupStep(m, SetupSteps[i], fd), i + 1, fd, failAt)

(* Variant: a failed set-up step leaves the socket as it is *)
InitMulticastRouterSock_NoRollback(m, fd, failAt) ==
    IF m.sock # InvalidSock THEN [m |-> m, error |-> "NONE"]
    ELSE RunSetup(m, 1, fd, failAt)

InitMulticastRouterSock(m, fd, failAt) ==
    IF m.sock # InvalidSock THEN [m |-> m, error |-> "NONE"]
    ELSE LET r == RunSetup(m, 1, fd, failAt)
         IN IF r.error # "NONE"
            THEN [m |-> FinalizeMulticastRouterSock(r.m), error |-> r.error]
            ELSE r

----------------------------------------------------------------------------
(* Expiry of the forwarding cache *)

QueryFailed == [ok |-> FALSE, pktcnt |-> 0, wrong_if |-> 0]

(* What ioctl(SIOCGETSGCNT_IN6) may return for an entry the kernel holds:    *)
(* no traffic, or MaxPkt packets of which none or MaxWrongIf came in on the *)
(* wrong interface.  The kernel counts a packet before it checks its        *)
(* interface, so wrong_if <= pktcnt and the unsigned subtraction does not   *)
(* wrap.                                                                    *)
QueryReplies ==
    {QueryFailed} \cup
    {[ok |-> TRUE, pktcnt |-> x[1], wrong_if |-> x[2]] :
        x \in {y \in {0, MaxPkt} \X {0, MaxWrongIf} : y[2] <= y[1]}}

(* ioctl(SIOCGETSGCNT_IN6): fails when the kernel has no entry for the route *)
SysGetSgCnt(m, route, reply) ==
    IF route \in DOMAIN m.kmfc THEN reply ELSE QueryFailed

IsExpired_Inclusive(info, t) ==
    info.mLastUseTime + kMulticastForwardingCacheExpireTimeout <= t

IsExpired(info, t) ==
    info.mLastUseTime + kMulticastForwardingCacheExpireTimeout < t

UpdateMulticastRouteInfo_KeepLastUse(m, route, reply, t) ==
    LET res == SysGetSgCnt(m, route, reply)
        routeInfo == m.mfc[route]
        m1 == Log(m, Call("SIOCGETSGCNT_IN6", route.mSrcAddr, route.mGroupAddr,
                          kMifIndexNone, {}, res.pktcnt, res.wrong_if,
                          IF res.ok THEN "OK" ELSE "EOTHER"))
        validPktCnt == res.pktcnt - res.wrong_if
    IN IF res.ok /\ validPktCnt # routeInfo.mValidPktCnt
       THEN [m |-> [m1 EXCEPT !.mfc[route].mValidPktCnt = res.pktcnt],
             updated |-> TRUE]
       ELSE [m |-> m1, updated |-> FALSE]

UpdateMulticastRouteInfo_StoreValid(m, route, reply, t) ==
    LET res == SysGetSgCnt(m, route, reply)
        routeInfo == m.mfc[route]
        m1 == Log(m, Call("SIOCGETSGCNT_IN6", route.mSrcAddr, route.mGroupAddr,
                          kMifIndexNone, {}, res.pktcnt, res.wrong_if,
                          IF res.ok THEN "OK" ELSE "EOTHER"))
        validPktCnt == res.pktcnt - res.wrong_if
    IN IF res.ok /\ validPktCnt # routeInfo.mValidPktCnt
       THEN [m |-> [m1 EXCEPT !.mfc[route].mValidPktCnt = validPktCnt,
                              !.mfc[route].mLastUseTime = t],
             updated |-> TRUE]
       ELSE [m |-> m1, updated |-> FALSE]

UpdateMulticastRouteInfo(m, route, reply, t) ==
    LET res == SysGetSgCnt(m, route, reply)
        routeInfo == m.mfc[route]
        m1 == Log(m, Call("SIOCGETSGCNT_IN6", route.mSrcAddr, route.mGroupAddr,
                          kMifIndexNone, {}, res.pktcnt, res.wrong_if,
                          IF res.ok THEN "OK" ELSE "EOTHER"))
        validPktCnt == res.pktcnt - res.wrong_if
    IN IF res.ok /\ validPktCnt # routeInfo.mValidPktCnt
       THEN [m |-> [m1 EXCEPT !.mfc[route].mValidPktCnt = res.pktcnt,
                              !.mfc[route].mLastUseTime = t],
             updated |-> TRUE]
       ELSE [m |-> m1, updated |-> FALSE]

(* Variant: the entry is erased only when MRT6_DEL_MFC returned 0 *)
ExpireEntry_OkOnly(m, route, t, q, delFail) ==
    LET routeInfo == m.mfc[route]
    IN IF ~IsExpired(routeInfo, t) THEN m
       ELSE LET u == UpdateMulticastRouteInfo(m, route, q[route], t)
            IN IF u.updated THEN u.m
               ELSE LET errno == DelMfcErrno(u.m, route, route \in delFail)
                        m2 == SysDelMfc(u.m, route, routeInfo.mIif, route \in delFail)
                    IN IF errno = "OK"
                       THEN [m2 EXCEPT !.mfc = MapErase(@, route)]
                       ELSE m2

(* One iteration of the loop of ExpireMulticastForwardingCache *)
ExpireEntry(m, route, t, q, delFail) ==
    LET routeInfo == m.mfc[route]
    IN IF ~IsExpired(routeInfo, t) THEN m
       ELSE LET u == UpdateMulticastRouteInfo(m, route, q[route], t)
            IN IF u.updated THEN u.m
               ELSE LET errno == DelMfcErrno(u.m, route, route \in delFail)
                        m2 == SysDelMfc(u.m, route, routeInfo.mIif, route \in delFail)
                    IN IF errno = "OK" \/ errno = "ENOENT"
                       THEN [m2 EXCEPT !.mfc = MapErase(@, route)]
                       ELSE m2

RECURSIVE ExpireLoop(_, _, _, _, _)
ExpireLoop(m, order, t, q, delFail) ==
    IF order = <<>> THEN m
    ELSE ExpireLoop(ExpireEntry(m, Head(order), t, q, delFail), Tail(order), t, q, delFail)

ExpireMulticastForwardingCache(m, t, q, delFail) ==
    ExpireLoop(m, MapOrder(DOMAIN m.mfc), t, q, delFail)

----------------------------------------------------------------------------
(* Installing, unblocking and removing routes *)

(* Variant: realm-local scope is forwarded to the Backbone as well *)
ForwardMif_ScopeGe(aGroupAddr, aIif, listeners, littleEndian) ==
    IF aIif = kMifIndexBackbone
    THEN IF aGroupAddr \in listeners THEN kMifIndexThread ELSE kMifIndexNone
    ELSE IF GetScope(aGroupAddr, littleEndian) >= kRealmLocalScope
         THEN kMifIndexBackbone ELSE kMifIndexNone

(* Variant: Thread traffic is forwarded whatever its scope *)
ForwardMif_NoScopeCheck(aGroupAddr, aIif, listeners, littleEndian) ==
    IF aIif = kMifIndexBackbone
    THEN IF aGroupAddr \in listeners THEN kMifIndexThread ELSE kMifIndexNone
    ELSE kMifIndexBackbone

ForwardMif(aGroupAddr, aIif, listeners, littleEndian) ==
    IF aIif = kMifIndexBackbone
    THEN IF aGroupAddr \in listeners THEN kMifIndexThread ELSE kMifIndexNone
    ELSE IF GetScope(aGroupAddr, littleEndian) > kRealmLocalScope
         THEN kMifIndexBackbone ELSE kMifIndexNone

IfSet(mif) == IF mif # kMifIndexNone THEN {mif} ELSE {}

(* Variant: an entry already in the map is not overwritten *)
AddMulticastForwardingCache_InsertOnly(m, aSrcAddr, aGroupAddr, aIif, t, q, delFail, addOk, littleEndian) ==
    IF ~(aIif = kMifIndexThread \/ aIif = kMifIndexBackbone)
    THEN [m |-> m, error |-> "INVALID_ARGS"]
    ELSE LET m1 == ExpireMulticastForwardingCache(m, t, q, delFail)
             forwardMif == ForwardMif(aGroupAddr, aIif, m1.listeners, littleEndian)
             route == MulticastRoute(aSrcAddr, aGroupAddr)
             m2 == SysAddMfc(m1, route, aIif, IfSet(forwardMif), addOk)
         IN IF ~addOk THEN [m |-> m2, error |-> "ERRNO"]
            ELSE [m |-> [m2 EXCEPT !.mfc = IF route \in DOMAIN @ THEN @
                                            ELSE MapPut(@, route, MulticastRouteInfo(aIif, forwardMif, t))],
                  error |-> "NONE"]

AddMulticastForwardingCache_NoArgCheck(m, aSrcAddr, aGroupAddr, aIif, t, q, delFail, addOk, littleEndian) ==
    LET forwardMif == ForwardMif(aGroupAddr, aIif, m.listeners, littleEndian)
        route == MulticastRoute(aSrcAddr, aGroupAddr)
        m2 == SysAddMfc(m, route, aIif, IfSet(forwardMif), addOk)
    IN IF ~addOk THEN [m |-> m2, error |-> "ERRNO"]
       ELSE [m |-> [m2 EXCEPT !.mfc = MapPut(@, route, MulticastRouteInfo(aIif, forwardMif, t))],
             error |-> "NONE"]

AddMulticastForwardingCache(m, aSrcAddr, aGroupAddr, aIif, t, q, delFail, addOk, littleEndian) ==
    IF ~(aIif = kMifIndexThread \/ aIif = kMifIndexBackbone)
    THEN [m |-> m, error |-> "INVALID_ARGS"]
    ELSE LET m1 == ExpireMulticastForwardingCache(m, t, q, delFail)
             forwardMif == ForwardMif(aGroupAddr, aIif, m1.listeners, littleEndian)
             route == MulticastRoute(aSrcAddr, aGroupAddr)
             m2 == SysAddMfc(m1, route, aIif, IfSet(forwardMif), addOk)
         IN IF ~addOk THEN [m |-> m2, error |-> "ERRNO"]
            ELSE [m |-> [m2 EXCEPT !.mfc = MapPut(@, route, MulticastRouteInfo(aIif, forwardMif, t))],
                  error |-> "NONE"]

(* Variant: the scan does not compare the group of the entry *)
UnblockEntry_AnyGroup(m, route, aGroupAddr, t, addFail) ==
    LET routeInfo == m.mfc[route]
    IN IF routeInfo.mIif # kMifIndexBackbone \/ routeInfo.mOif = kMifIndexThread
       THEN m
       ELSE LET ok == route \notin addFail
                m1 == SysAddMfc(m, MulticastRoute(route.mSrcAddr, route.mGroupAddr),
                                kMifIndexBackbone, {kMifIndexThread}, ok)
            IN IF ok
               THEN [m1 EXCEPT !.mfc[route] = MulticastRouteInfo(routeInfo.mIif, kMifIndexThread, t)]
               ELSE m1

(* Variant: the map entry is rewritten whatever setsockopt returned *)
UnblockEntry_IgnoreError(m, route, aGroupAddr, t, addFail) ==
    LET routeInfo == m.mfc[route]
    IN IF routeInfo.mIif # kMifIndexBackbone \/ routeInfo.mOif = kMifIndexThread
          \/ route.mGroupAddr # aGroupAddr
       THEN m
       ELSE LET ok == route \notin addFail
                m1 == SysAddMfc(m, MulticastRoute(route.mSrcAddr, aGroupAddr),
                                kMifIndexBackbone, {kMifIndexThread}, ok)
            IN [m1 EXCEPT !.mfc[route] = MulticastRouteInfo(routeInfo.mIif, kMifIndexThread, t)]

UnblockEntry(m, route, aGroupAddr, t, addFail) ==
    LET routeInfo == m.mfc[route]
    IN IF routeInfo.mIif # kMifIndexBackbone \/ routeInfo.mOif = kMifIndexThread
          \/ route.mGroupAddr # aGroupAddr
       THEN m
       ELSE LET ok == route \notin addFail
                m1 == SysAddMfc(m, MulticastRoute(route.mSrcAddr, aGroupAddr),
                                kMifIndexBackbone, {kMifIndexThread}, ok)
            IN IF ok
               THEN [m1 EXCEPT !.mfc[route] = MulticastRouteInfo(routeInfo.mIif, kMifIndexThread, t)]
               ELSE m1

RECURSIVE UnblockLoop(_, _, _, _, _)
UnblockLoop(m, order, aGroupAddr, t, addFail) ==
    IF order = <<>> THEN m
    ELSE UnblockLoop(UnblockEntry(m, Head(order), aGroupAddr, t, addFail),
                     Tail(order), aGroupAddr, t, addFail)

UnblockInboundMulticastForwardingCache(m, aGroupAddr, t, addFail) ==
    UnblockLoop(m, MapOrder(DOMAIN m.mfc), aGroupAddr, t, addFail)

(* Variant: only forwarding entries are deleted from the kernel *)
RemoveEntry_ForwardedOnly(m, route, aGroupAddr, delFail) ==
    LET routeInfo == m.mfc[route]
    IN IF routeInfo.mOif = kMifIndexThread /\ route.mGroupAddr = aGroupAddr
       THEN LET errno == DelMfcErrno(m, route, route \in delFail)
                m1 == SysDelMfc(m, MulticastRoute(route.mSrcAddr, aGroupAddr),
                                kMifIndexBackbone, route \in delFail)
            IN IF errno = "OK" \/ errno = "ENOENT"
               THEN [m1 EXCEPT !.mfc = MapErase(@, route)]
               ELSE m1
       ELSE m

RemoveEntry(m, route, aGroupAddr, delFail) ==
    LET routeInfo == m.mfc[route]
    IN IF routeInfo.mIif = kMifIndexBackbone /\ route.mGroupAddr = aGroupAddr
       THEN LET errno == DelMfcErrno(m, route, route \in delFail)
                m1 == SysDelMfc(m, MulticastRoute(route.mSrcAddr, aGroupAddr),
                                kMifIndexBackbone, route \in delFail)
            IN IF errno = "OK" \/ errno = "ENOENT"
               THEN [m1 EXCEPT !.mfc = MapErase(@, route)]
               ELSE m1
       ELSE m

RECURSIVE RemoveLoop(_, _, _, _)
RemoveLoop(m, order, aGroupAddr, delFail) ==
    IF order = <<>> THEN m
    ELSE RemoveLoop(RemoveEntry(m, Head(order), aGroupAddr, delFail),
                    Tail(order), aGroupAddr, delFail)

(* The targeted loop is followed by mMulticastForwardingCache.clear() *)
RemoveInboundMulticastForwardingCache(m, aGroupAddr, delFail) ==
    [RemoveLoop(m, MapOrder(DOMAIN m.mfc), aGroupAddr, delFail) EXCEPT !.mfc = EmptyMap]

----------------------------------------------------------------------------
(* The public operations, as functions of the machine value *)

EnableOp(m, fd, failAt) ==
    IF IsEnabled(m.sock) THEN [m |-> m, error |-> "NONE"]
    ELSE InitMulticastRouterSock(m, fd, failAt)

(* Variant: the descriptor is closed without asking whether it is open *)
DisableOp_CloseAlways(m) ==
    [SysClose(m, m.sock) EXCEPT !.sock = InvalidSock]

DisableOp(m) ==
    IF ~IsEnabled(m.sock) THEN m
    ELSE FinalizeMulticastRouterSock(m)

(* Variant: the unblock scan runs whether the manager is enabled or not *)
AddOp_NoEnabledCheck(m, aAddress, t, addFail) ==
    LET m1 == [m EXCEPT !.listeners = @ \cup {aAddress}]
    IN UnblockInboundMulticastForwardingCache(m1, aAddress, t, addFail)

AddOp(m, aAddress, t, addFail) ==
    LET m1 == [m EXCEPT !.listeners = @ \cup {aAddress}]
    IN IF ~IsEnabled(m1.sock) THEN m1
       ELSE UnblockInboundMulticastForwardingCache(m1, aAddress, t, addFail)

RemoveOp(m, aAddress, delFail) ==
    LET m1 == [m EXCEPT !.listeners = @ \ {aAddress}]
    IN IF ~IsEnabled(m1.sock) THEN m1
       ELSE RemoveInboundMulticastForwardingCache(m1, aAddress, delFail)

(* Variant: the largest descriptor is overwritten, not compared *)
UpdateFdSetOp_NoMax(m, l) ==
    IF ~IsEnabled(m.sock) THEN l
    ELSE [l EXCEPT !.read = @ \cup {m.sock}, !.maxFd = m.sock]

(* UpdateFdSet: l holds the read, write and error sets, the largest         *)
(* descriptor and the timeout the mainloop passes by reference              *)
UpdateFdSetOp(m, l) ==
    IF ~IsEnabled(m.sock) THEN l
    ELSE [l EXCEPT !.read = @ \cup {m.sock},
                   !.maxFd = IF @ > m.sock THEN @ ELSE m.sock]

(* What read() on the router socket may deliver *)
NoMsg == [nr |-> 0, im6_mbz |-> 0, im6_msgtype |-> 0, im6_mif |-> 0,
          im6_src |-> NoAddr, im6_dst |-> NoAddr]

(* read() returning -1 *)
ReadError == [NoMsg EXCEPT !.nr = -1]

Messages(flows) ==
    {NoMsg, ReadError}
    \cup {[nr |-> 1, im6_mbz |-> 0, im6_msgtype |-> MRT6MSG_NOCACHE,
            im6_mif |-> mif, im6_src |-> f[1], im6_dst |-> f[2]] :
              mif \in {kMifIndexThread, kMifIndexBackbone}, f \in flows}
    \cup [nr : {1}, im6_mbz : {0}, im6_msgtype : {MRT6MSG_NOCACHE},
          im6_mif : {kMifIndexBackbone + 1}, im6_src : {FD00_1}, im6_dst : {FF0E_1}]
    \cup [nr : {1}, im6_mbz : {0}, im6_msgtype : {MRT6MSG_WRONGMIF},
          im6_mif : {kMifIndexThread}, im6_src : {FD00_1}, im6_dst : {FF0E_1}]
    \cup [nr : {1}, im6_mbz : {1}, im6_msgtype : {MRT6MSG_NOCACHE},
          im6_mif : {kMifIndexThread}, im6_src : {FD00_1}, im6_dst : {FF0E_1}]

ProcessMulticastRouterMessages_AnyType(m, msg, t, q, delFail, addOk, littleEndian) ==
    LET m1 == Log(m, Call("read", NoAddr, NoAddr, kMifIndexNone, {}, m.sock, msg.nr,
                          IF msg.nr > 0 THEN "OK" ELSE "EOTHER"))
    IN IF ~(msg.nr > 0) THEN [m |-> m1, error |-> "ERRNO", path |-> "read_failed"]
       ELSE IF msg.im6_mbz # 0 THEN [m |-> m1, error |-> "NONE", path |-> "mbz"]
       ELSE LET r == AddMulticastForwardingCache(m1, msg.im6_src, msg.im6_dst, msg.im6_mif, t, q, delFail, addOk, littleEndian)
            IN [m |-> r.m, error |-> r.error, path |-> "upcall"]

ProcessMulticastRouterMessages_ReadTwice(m, msg, t, q, delFail, addOk, littleEndian) ==
    LET rd == Call("read", NoAddr, NoAddr, kMifIndexNone, {}, m.sock, msg.nr,
                   IF msg.nr > 0 THEN "OK" ELSE "EOTHER")
        m1 == Log(Log(m, rd), rd)
    IN IF ~(msg.nr > 0) THEN [m |-> m1, error |-> "ERRNO", path |-> "read_failed"]
       ELSE IF msg.im6_mbz # 0 THEN [m |-> m1, error |-> "NONE", path |-> "mbz"]
       ELSE IF msg.im6_msgtype # MRT6MSG_NOCACHE THEN [m |-> m1, error |-> "NONE", path |-> "msgtype"]
       ELSE LET r == AddMulticastForwardingCache(m1, msg.im6_src, msg.im6_dst, msg.im6_mif, t, q, delFail, addOk, littleEndian)
            IN [m |-> r.m, error |-> r.error, path |-> "upcall"]

ProcessMulticastRouterMessages(m, msg, t, q, delFail, addOk, littleEndian) ==
    LET m1 == Log(m, Call("read", NoAddr, NoAddr, kMifIndexNone, {}, m.sock, msg.nr,
                          IF msg.nr > 0 THEN "OK" ELSE "EOTHER"))
    IN IF ~(msg.nr > 0) THEN [m |-> m1, error |-> "ERRNO", path |-> "read_failed"]
       ELSE IF msg.im6_mbz # 0 THEN [m |-> m1, error |-> "NONE", path |-> "mbz"]
       ELSE IF msg.im6_msgtype # MRT6MSG_NOCACHE THEN [m |-> m1, error |-> "NONE", path |-> "msgtype"]
       ELSE LET r == AddMulticastForwardingCache(m1, msg.im6_src, msg.im6_dst, msg.im6_mif,
                                                 t, q, delFail, addOk, littleEndian)
            IN [m |-> r.m, error |-> r.error, path |-> "upcall"]

(* FD_ISSET *)
FdIsSet(fd, aFdSet) == fd \in aFdSet

ProcessOp_NoFdIsset(m, aReadFdSet, msg, t, q, delFail, addOk, littleEndian) ==
    IF ~IsEnabled(m.sock) THEN [m |-> m, error |-> "NONE", path |-> "disabled"]
    ELSE ProcessMulticastRouterMessages(m, msg, t, q, delFail, addOk, littleEndian)

ProcessOp(m, aReadFdSet, msg, t, q, delFail, addOk, littleEndian) ==
    IF ~IsEnabled(m.sock) THEN [m |-> m, error |-> "NONE", path |-> "disabled"]
    ELSE IF FdIsSet(m.sock, aReadFdSet)
         THEN ProcessMulticastRouterMessages(m, msg, t, q, delFail, addOk, littleEndian)
         ELSE [m |-> m, error |-> "NONE", path |-> "not_readable"]

----------------------------------------------------------------------------
(* The state machine *)

Machine ==
    [sock |-> mMulticastRouterSock, listeners |-> mListenerSet,
     mfc |-> mMulticastForwardingCache, ks |-> kSocks, kmfc |-> kMfc, calls |-> <<>>]

Commit(m) ==
    /\ mMulticastRouterSock' = m.sock
    /\ mListenerSet' = m.listeners
    /\ mMulticastForwardingCache' = m.mfc
    /\ kSocks' = m.ks
    /\ kMfc' = m.kmfc
    /\ calls' = m.calls

Op(name, group, src, iif, error, path) ==
    [name |-> name, group |-> group, src |-> src, iif |-> iif, error |-> error,
     path |-> path, wasEnabled |-> IsEnabled(mMulticastRouterSock), readable |-> FALSE,
     msg |-> NoMsg]

(* The entries an expiry pass at time t looks at, and the replies the       *)
(* kernel can give for them                                                 *)
ExpiredRoutes(m, t) == {r \in DOMAIN m.mfc : IsExpired(m.mfc[r], t)}

QueryOracles(m, S) ==
    {q \in [S -> QueryReplies] :
        \A r \in S : IF r \in DOMAIN m.kmfc THEN (env.faults \/ q[r].ok)
                                              ELSE q[r] = QueryFailed}

(* The sets of calls that may fail in one handler *)
Faults(S) == IF env.faults THEN SUBSET S ELSE {{}}

(* The counters read for the routes an expiry pass over S refreshed, kept   *)
(* until the entry is rewritten or erased; m is the manager after the       *)
(* handler, installed the routes the handler wrote after the pass           *)
Track(m, S, q, t, installed) ==
    IF ~env.track THEN refreshed
    ELSE LET upd == {r \in S : UpdateMulticastRouteInfo(Machine, r, q[r], t).updated} \ installed
             kept == {r \in DOMAIN refreshed \ (upd \cup installed) :
                         /\ r \in DOMAIN m.mfc
                         /\ m.mfc[r] = mMulticastForwardingCache[r]}
         IN [r \in upd \cup kept |->
                IF r \in upd THEN <<q[r].pktcnt, q[r].wrong_if>> ELSE refreshed[r]]

StaleRoutes(m, S, t, q) ==
    {r \in S : ~UpdateMulticastRouteInfo(m, r, q[r], t).updated}

(* The SMCRouteManager after construction, with the smcroute daemon not    *)
(* yet started, and the BackboneAgent after construction                   *)
NewSmc ==
    [mEnabled |-> FALSE, mListenerSet |-> {}, routes |-> {}, outbound |-> FALSE,
     cmds |-> <<>>, anyFailed |-> FALSE, asserted |-> FALSE, dead |-> FALSE,
     ndebug |-> FALSE, op |-> "New", group |-> NoAddr, error |-> "NONE",
     wasEnabled |-> FALSE]

NewAgent ==
    [mBackboneRouterState |-> OT_BACKBONE_ROUTER_STATE_DISABLED, table |-> {},
     started |-> FALSE, handler |-> "New", event |-> "", group |-> NoAddr,
     state |-> OT_BACKBONE_ROUTER_STATE_DISABLED, called |-> <<>>]

(* The mainloop starts an iteration with what the other users of the loop   *)
(* put into the fd sets, the largest descriptor and the timeout             *)
NoLoop == [read |-> {}, write |-> {}, error |-> {}, maxFd |-> -1, timeout |-> 0]
OtherFds == {FirstFreeFd - 1, FirstFreeFd + 1}
Timeouts == {0, 10}
LoopInputs ==
    [read : SUBSET OtherFds, write : SUBSET OtherFds, error : SUBSET OtherFds,
     maxFd : {-1} \cup OtherFds, timeout : Timeouts]

(* Nothing compared, subscribed, scheduled or queried yet *)
NoRoute == MulticastRoute(NoAddr, NoAddr)
NoCmp ==   [a |-> NoRoute, b |-> NoRoute, c |-> NoRoute, compared |-> FALSE,
            ab |-> FALSE, ba |-> FALSE, bc |-> FALSE, ac |-> FALSE]
NewProxy ==
    [mSubscribedServices |-> <<>>, published |-> {}, handler |-> "", name |-> <<>>,
     called |-> <<>>, error |-> "NONE", aborted |-> FALSE]
NewPoller ==
    [mWatches |-> <<>>, mTimers |-> <<>>, now |-> 0,
     aReadFdSet |-> {}, aWriteFdSet |-> {}, aErrorFdSet |-> {}, aMaxFd |-> -1,
     incoming |-> [tv_sec |-> 0, tv_usec |-> 0],
     aTimeout |-> [tv_sec |-> 0, tv_usec |-> 0], updated |-> FALSE]
NoQuery == [a |-> NoAddr]

InitManager(e) ==
    /\ mMulticastRouterSock = InvalidSock
    /\ mListenerSet = {}
    /\ mMulticastForwardingCache = EmptyMap
    /\ kSocks = EmptyMap
    /\ kMfc = EmptyMap
    /\ now = 0
    /\ op = [name |-> "Init", group |-> NoAddr, src |-> NoAddr, iif |-> kMifIndexNone,
             error |-> "NONE", path |-> "", wasEnabled |-> FALSE, readable |-> FALSE,
             msg |-> NoMsg]
    /\ calls = <<>>
    /\ edStage = 0
    /\ env = e
    /\ refreshed = EmptyMap
    /\ loop = NoLoop
    /\ queue = <<>>
    /\ smc = [NewSmc EXCEPT !.ndebug = e.ndebug]
    /\ agent = NewAgent

InitWith(e) ==
    /\ InitManager(e)
    /\ cmp = NoCmp
    /\ proxy = NewProxy
    /\ poller = NewPoller
    /\ addr = NoQuery

Init == InitWith(MainEnv)

Enable ==
    \E fd \in Fds :
    \E failAt \in (IF IsEnabled(mMulticastRouterSock) \/ ~env.faults THEN {"none"} ELSE FailPoints) :
        /\ IsEnabled(mMulticastRouterSock) \/ fd \notin DOMAIN kSocks
        /\ LET r == EnableOp(Machine, fd, failAt)
           IN /\ Commit(r.m)
              /\ op' = Op("Enable", NoAddr, NoAddr, kMifIndexNone, r.error, "")
              /\ edStage' = IF r.error # "NONE" THEN 0
                            ELSE IF edStage = 2 THEN 3 ELSE 1
              /\ queue' = IF IsEnabled(r.m.sock) THEN queue ELSE <<>>
        /\ UNCHANGED <<now, env, refreshed, loop, smc, agent, libs>>

Disable ==
    /\ Commit(DisableOp(Machine))
    /\ op' = Op("Disable", NoAddr, NoAddr, kMifIndexNone, "NONE", "")
    /\ edStage' = IF edStage \in {1, 3} THEN 2 ELSE 0
    /\ queue' = <<>>
    /\ UNCHANGED <<now, env, refreshed, loop, smc, agent, libs>>

Add ==
    \E aAddress \in Groups \ mListenerSet :
        \E addFail \in Faults({r \in DOMAIN mMulticastForwardingCache :
                                  IsEnabled(mMulticastRouterSock) /\ r.mGroupAddr = aAddress}) :
            LET m == AddOp(Machine, aAddress, now, addFail)
            IN /\ Commit(m)
               /\ op' = Op("Add", aAddress, NoAddr, kMifIndexNone, "NONE", "")
               /\ edStage' = 0
               /\ refreshed' = Track(m, {}, EmptyMap, now, {})
               /\ UNCHANGED <<now, env, loop, queue, smc, agent, libs>>

Remove ==
    \E aAddress \in mListenerSet :
        \E delFail \in Faults({r \in DOMAIN mMulticastForwardingCache :
                                  IsEnabled(mMulticastRouterSock) /\ r.mGroupAddr = aAddress}) :
            LET m == RemoveOp(Machine, aAddress, delFail)
            IN /\ Commit(m)
               /\ op' = Op("Remove", aAddress, NoAddr, kMifIndexNone, "NONE", "")
               /\ edStage' = 0
               /\ refreshed' = Track(m, {}, EmptyMap, now, {})
               /\ UNCHANGED <<now, env, loop, queue, smc, agent, libs>>

(* The messages a call of Process can meet: none is read unless the manager *)
(* is enabled and the descriptor is in the read set                         *)
Readable(readable) ==
    IF IsEnabled(mMulticastRouterSock) /\ readable
    THEN (IF env.faults THEN Messages(env.flows) ELSE Messages(env.flows) \ {NoMsg, ReadError})
    ELSE {NoMsg}

RunsExpiry(readable, msg) ==
    /\ IsEnabled(mMulticastRouterSock) /\ readable
    /\ msg.nr > 0 /\ msg.im6_mbz = 0 /\ msg.im6_msgtype = MRT6MSG_NOCACHE
    /\ msg.im6_mif \in {kMifIndexThread, kMifIndexBackbone}

(* GetScope reads the host byte order only for a non-multicast address *)
HostByteOrders(msg) == IF IsMulticast(msg.im6_dst) THEN {TRUE} ELSE BOOLEAN

(* The read sets the mainloop may pass: the descriptors of the other users  *)
(* of the loop, with or without the router socket                           *)
ReadFdSets == {OtherFds, OtherFds \cup Fds}

(* Process called with the read set aReadFdSet when read() would deliver msg *)
ProcessWith(aReadFdSet, msg) ==
        LET readable == IsEnabled(mMulticastRouterSock) /\ FdIsSet(mMulticastRouterSock, aReadFdSet)
            runs == RunsExpiry(readable, msg)
            S == IF runs THEN ExpiredRoutes(Machine, now) ELSE {}
        IN \E q \in QueryOracles(Machine, S) :
           \E delFail \in Faults(StaleRoutes(Machine, S, now, q)) :
           \E addOk \in (IF runs /\ env.faults THEN BOOLEAN ELSE {TRUE}) :
           \E littleEndian \in (IF runs THEN HostByteOrders(msg) ELSE {TRUE}) :
               LET r == ProcessOp(Machine, aReadFdSet, msg, now, q, delFail, addOk, littleEndian)
               IN /\ Commit(r.m)
                  /\ op' = [Op("Process", msg.im6_dst, msg.im6_src, msg.im6_mif, r.error, r.path)
                              EXCEPT !.readable = readable, !.msg = msg]
                  /\ edStage' = 0
                  /\ refreshed' = Track(r.m, S, q, now,
                                         IF r.path = "upcall" /\ r.error = "NONE"
                                         THEN {MulticastRoute(msg.im6_src, msg.im6_dst)}
                                         ELSE {})
                  /\ UNCHANGED <<now, env, loop, smc, agent, libs>>

Process ==
    \E aReadFdSet \in ReadFdSets :
    \E msg \in Readable(FdIsSet(mMulticastRouterSock, aReadFdSet)) :
        /\ ProcessWith(aReadFdSet, msg)
        /\ UNCHANGED queue

(* The steady clock advances between operations *)
Tick ==
    \E d \in env.ticks :
        /\ now + d <= env.horizon
        /\ now' = now + d
        /\ op' = Op("Tick", NoAddr, NoAddr, kMifIndexNone, "NONE", "")
        /\ calls' = <<>>
        /\ UNCHANGED <<mMulticastRouterSock, mListenerSet, mMulticastForwardingCache,
                       kSocks, kMfc, edStage, env, refreshed, loop, queue, smc, agent, libs>>

Next == Enable \/ Disable \/ Add \/ Remove \/ Process \/ Tick

(* One iteration of the mainloop: the sets are prepared, then the manager   *)
(* is asked for its descriptor                                              *)
MainloopPrepare ==
    \E l \in LoopInputs :
        /\ loop' = l
        /\ op' = Op("MainloopPrepare", NoAddr, NoAddr, kMifIndexNone, "NONE", "")
        /\ calls' = <<>>
        /\ edStage' = 0
        /\ UNCHANGED <<mMulticastRouterSock, mListenerSet, mMulticastForwardingCache,
                       kSocks, kMfc, now, env, refreshed, queue, smc, agent, libs>>

UpdateFdSet ==
    /\ loop' = UpdateFdSetOp(Machine, loop)
    /\ op' = Op("UpdateFdSet", NoAddr, NoAddr, kMifIndexNone, "NONE", "")
    /\ calls' = <<>>
    /\ edStage' = 0
    /\ UNCHANGED <<mMulticastRouterSock, mListenerSet, mMulticastForwardingCache,
                   kSocks, kMfc, now, env, refreshed, queue, smc, agent, libs>>

NextLoop == Enable \/ Disable \/ MainloopPrepare \/ UpdateFdSet

Spec == Init /\ [][Next]_vars

(* The manager enabled and disabled between iterations of the mainloop *)
SpecLoop == Init /\ [][NextLoop]_vars

(* The same operations with every system call succeeding *)
InitNoFault == InitWith(NoFaultEnv)
SpecNoFault == InitNoFault /\ [][Next]_vars

(* The same operations, every system call succeeding, over a time long     *)
(* enough for two expiry passes                                             *)
InitExpiry == InitWith(ExpiryEnv)
SpecExpiry == InitExpiry /\ [][Next]_vars

(* The same operations with two sources sending to one group *)
InitUnblock == InitWith(UnblockEnv)
SpecUnblock == InitUnblock /\ [][Next]_vars

-----------------------------------------------------------------------------
(* The life of the object: the class declares a constructor and no          *)
(* destructor, so destroying it runs the destructors of the std::set and    *)
(* the std::map and does nothing for the int mMulticastRouterSock: no       *)
(* system call is made and the kernel keeps what it holds.                  *)

Alive == op.name # "Destroy"

Destroy ==
    /\ Alive
    /\ mListenerSet' = {}
    /\ mMulticastForwardingCache' = EmptyMap
    /\ op' = Op("Destroy", NoAddr, NoAddr, kMifIndexNone, "NONE", "")
    /\ calls' = <<>>
    /\ edStage' = 0
    /\ UNCHANGED <<mMulticastRouterSock, kSocks, kMfc, now, env, refreshed, loop,
                   queue, smc, agent, libs>>

NextLife ==
    \/ Alive /\ Enable
    \/ Alive /\ Disable
    \/ Alive /\ Add
    \/ Alive /\ Remove
    \/ Alive /\ Process
    \/ Alive /\ Tick
    \/ Destroy

SpecLife == InitNoFault /\ [][NextLife]_vars

-----------------------------------------------------------------------------
(* The receive queue of the router socket.  The kernel appends one message  *)
(* per upcall; select() reports the socket readable while the queue is not  *)
(* empty, and each read() on the datagram socket takes the oldest message.  *)

(* The kernel queues a message on the open router socket *)
Upcall ==
    /\ IsEnabled(mMulticastRouterSock)
    /\ Len(queue) < MaxQueue
    /\ \E msg \in Messages(env.flows) \ {NoMsg, ReadError} : queue' = Append(queue, msg)
    /\ op' = Op("Upcall", NoAddr, NoAddr, kMifIndexNone, "NONE", "")
    /\ calls' = <<>>
    /\ UNCHANGED <<mMulticastRouterSock, mListenerSet, mMulticastForwardingCache,
                   kSocks, kMfc, now, edStage, env, refreshed, loop, smc, agent, libs>>

(* The queue after the read() calls logged in log *)
AfterReads(rq, log) ==
    LET n == Cardinality({i \in 1..Len(log) : log[i].call = "read"})
    IN IF n >= Len(rq) THEN <<>> ELSE SubSeq(rq, n + 1, Len(rq))

(* Process after select(): the socket is in the read set only if a message  *)
(* is waiting, and read() delivers the head of the queue                    *)
ProcessQueued ==
    \E aReadFdSet \in ReadFdSets :
        /\ (IsEnabled(mMulticastRouterSock) /\ FdIsSet(mMulticastRouterSock, aReadFdSet))
              => queue # <<>>
        /\ LET msg == IF IsEnabled(mMulticastRouterSock) /\ FdIsSet(mMulticastRouterSock, aReadFdSet)
                      THEN Head(queue) ELSE NoMsg
           IN /\ ProcessWith(aReadFdSet, msg)
              /\ queue' = AfterReads(queue, calls')

NextQueue == Enable \/ Disable \/ Add \/ Remove \/ Upcall \/ ProcessQueued \/ Tick

InitQueue == InitWith(QueueEnv)
SpecQueue == InitQueue /\ [][NextQueue]_vars

-----------------------------------------------------------------------------
(* SMCRouteManager: the route manager that drives the smcroute daemon with  *)
(* smcroutectl commands.  smc holds the manager's members (mEnabled,        *)
(* mListenerSet), the daemon's configured inbound routes                    *)
(* (<backbone> :: g <thread>) and outbound rule, and a record of the last   *)
(* call: the commands it ran, its error, whether an assert failed.          *)

SmcCmd(cmd, g) == [cmd |-> cmd, group |-> g]

SmcCommands ==
    {SmcCmd(c, NoAddr) : c \in {"restart", "flush", "allow", "forbid"}}
    \cup {SmcCmd(c, g) : c \in {"add", "del"}, g \in Groups}

(* The commands that fail during one call: none, or one of them *)
SmcFaults == {{}} \cup {{c} : c \in SmcCommands}

(* BackboneHelper::SystemCommand: runs the command; the daemon changes its  *)
(* routes only if the command succeeds.  flush drops the kernel routes the  *)
(* daemon derived from its rules, never the rules themselves.               *)
SystemCommand(s, c, fail) ==
    LET ok == c \notin fail
    IN [s EXCEPT !.cmds = Append(@, [cmd |-> c.cmd, group |-> c.group, ok |-> ok]),
                 !.anyFailed = @ \/ ~ok,
                 !.routes = IF ~ok THEN @
                            ELSE IF c.cmd = "add" THEN @ \cup {c.group}
                            ELSE IF c.cmd = "del" THEN @ \ {c.group}
                            ELSE IF c.cmd = "restart" THEN {}
                            ELSE @,
                 !.outbound = IF ~ok THEN @
                              ELSE IF c.cmd = "allow" THEN TRUE
                              ELSE IF c.cmd \in {"forbid", "restart"} THEN FALSE
                              ELSE @]

Flush(s, fail) == SystemCommand(s, SmcCmd("flush", NoAddr), fail)
AllowOutboundMulticast(s, fail) == SystemCommand(s, SmcCmd("allow", NoAddr), fail)
ForbidOutboundMulticast(s, fail) == SystemCommand(s, SmcCmd("forbid", NoAddr), fail)
AddRoute(s, aAddress, fail) == SystemCommand(s, SmcCmd("add", aAddress), fail)
DeleteRoute(s, aAddress, fail) == SystemCommand(s, SmcCmd("del", aAddress), fail)

(* the error of the command run last *)
SmcError(s) == IF s.cmds[Len(s.cmds)].ok THEN "NONE" ELSE "SMCROUTE"

(* std::set<Ip6Address> iterates in the order of operator< *)
FirstAddress(S) == CHOOSE a \in S : \A b \in S \ {a} : Ip6AddressLess(a, b)

(* a call starts with no command run and no error *)
SmcCall(s, name, g) ==
    [s EXCEPT !.cmds = <<>>, !.error = "NONE", !.op = name, !.group = g,
              !.wasEnabled = s.mEnabled]

(* assert(cond): the process aborts, or goes on in a build with NDEBUG *)
SmcAssert(s, cond) ==
    IF cond THEN s
    ELSE [s EXCEPT !.asserted = TRUE, !.dead = ~s.ndebug]

(* StartSMCRouteService restarts the daemon and polls it with flush for up  *)
(* to ten seconds; SuccessOrQuit ends the process if it did not come up     *)
StartSMCRouteService(s, fail) ==
    LET s1 == SystemCommand(s, SmcCmd("restart", NoAddr), fail)
    IN IF SmcError(s1) # "NONE" THEN [s1 EXCEPT !.error = "SMCROUTE", !.dead = TRUE]
       ELSE LET s2 == Flush(s1, fail)
            IN IF SmcError(s2) # "NONE" THEN [s2 EXCEPT !.error = "SMCROUTE", !.dead = TRUE]
               ELSE s2

SmcInitOp(s, fail) ==
    LET s1 == SmcAssert(SmcCall(s, "Init", NoAddr), ~s.mEnabled)
    IN IF s1.dead THEN s1 ELSE StartSMCRouteService(s1, fail)

RECURSIVE SmcAddRoutes(_, _, _)
SmcAddRoutes(s, todo, fail) ==
    IF todo = {} THEN s
    ELSE LET a == FirstAddress(todo)
             s1 == AddRoute(s, a, fail)
         IN IF SmcError(s1) # "NONE" THEN [s1 EXCEPT !.error = "SMCROUTE"]
            ELSE SmcAddRoutes(s1, todo \ {a}, fail)

SmcEnableOp(s, fail) ==
    LET s0 == SmcCall(s, "Enable", NoAddr)
    IN IF s0.mEnabled THEN s0
       ELSE LET s1 == Flush([s0 EXCEPT !.mEnabled = TRUE], fail)
                s2 == AllowOutboundMulticast(s1, fail)
            IN IF SmcError(s2) # "NONE" THEN [s2 EXCEPT !.error = "SMCROUTE"]
               ELSE SmcAddRoutes(s2, s2.mListenerSet, fail)

RECURSIVE SmcDeleteRoutes(_, _, _)
SmcDeleteRoutes(s, todo, fail) ==
    IF todo = {} THEN s
    ELSE LET a == FirstAddress(todo)
             s1 == DeleteRoute(s, a, fail)
         IN IF SmcError(s1) # "NONE" THEN [s1 EXCEPT !.error = "SMCROUTE"]
            ELSE SmcDeleteRoutes(s1, todo \ {a}, fail)

SmcDisableOp(s, fail) ==
    LET s0 == SmcCall(s, "Disable", NoAddr)
    IN IF ~s0.mEnabled THEN s0
       ELSE LET s1 == Flush([s0 EXCEPT !.mEnabled = FALSE], fail)
                s2 == SmcDeleteRoutes(s1, s1.mListenerSet, fail)
            IN IF s2.error # "NONE" THEN s2
               ELSE LET s3 == ForbidOutboundMulticast(s2, fail)
                    IN [s3 EXCEPT !.error = SmcError(s3)]

SmcAddOp_NoEnabledCheck(s, aAddress, fail) ==
    LET s0 == SmcAssert(SmcCall(s, "Add", aAddress), aAddress \notin s.mListenerSet)
    IN IF s0.dead THEN s0
       ELSE LET s1 == [s0 EXCEPT !.mListenerSet = @ \cup {aAddress}]
                s2 == AddRoute(Flush(s1, fail), aAddress, fail)
            IN [s2 EXCEPT !.error = SmcError(s2)]

SmcAddOp(s, aAddress, fail) ==
    LET s0 == SmcAssert(SmcCall(s, "Add", aAddress), aAddress \notin s.mListenerSet)
    IN IF s0.dead THEN s0
       ELSE LET s1 == [s0 EXCEPT !.mListenerSet = @ \cup {aAddress}]
            IN IF ~s1.mEnabled THEN s1
               ELSE LET s2 == AddRoute(Flush(s1, fail), aAddress, fail)
                    IN [s2 EXCEPT !.error = SmcError(s2)]

SmcRemoveOp(s, aAddress, fail) ==
    LET s0 == SmcAssert(SmcCall(s, "Remove", aAddress), aAddress \in s.mListenerSet)
    IN IF s0.dead THEN s0
       ELSE LET s1 == [s0 EXCEPT !.mListenerSet = @ \ {aAddress}]
            IN IF ~s1.mEnabled THEN s1
               ELSE LET s2 == DeleteRoute(Flush(s1, fail), aAddress, fail)
                    IN [s2 EXCEPT !.error = SmcError(s2)]

(* The manager driven directly *)
SmcUnchanged ==
    UNCHANGED <<mMulticastRouterSock, mListenerSet, mMulticastForwardingCache,
                kSocks, kMfc, now, op, calls, edStage, env, refreshed, loop, queue, agent, libs>>

SmcInit ==
    /\ smc.op = "New"
    /\ \E fail \in SmcFaults : smc' = SmcInitOp(smc, fail)
    /\ SmcUnchanged

SmcStarted == smc.op # "New" /\ ~smc.dead

SmcEnable ==
    /\ SmcStarted
    /\ \E fail \in SmcFaults : smc' = SmcEnableOp(smc, fail)
    /\ SmcUnchanged

SmcDisable ==
    /\ SmcStarted
    /\ \E fail \in SmcFaults : smc' = SmcDisableOp(smc, fail)
    /\ SmcUnchanged

SmcAdd ==
    /\ SmcStarted
    /\ \E g \in Groups : \E fail \in SmcFaults : smc' = SmcAddOp(smc, g, fail)
    /\ SmcUnchanged

SmcRemove ==
    /\ SmcStarted
    /\ \E g \in Groups : \E fail \in SmcFaults : smc' = SmcRemoveOp(smc, g, fail)
    /\ SmcUnchanged

NextSmc == SmcInit \/ SmcEnable \/ SmcDisable \/ SmcAdd \/ SmcRemove

InitSmc == InitWith(NoFaultEnv) \/ InitWith(NdebugEnv)

SpecSmc == InitSmc /\ [][NextSmc]_vars

-----------------------------------------------------------------------------
(* BackboneAgent: it owns the SMCRouteManager, records the Backbone Router  *)
(* state it last read from the Thread stack, and receives the stack's       *)
(* Multicast Listener events.  agent holds mBackboneRouterState, the        *)
(* stack's Multicast Listeners Table, and a record of the last handler: its *)
(* inputs and the SMCRouteManager methods it called.                        *)

BackboneRouterStates ==
    {OT_BACKBONE_ROUTER_STATE_DISABLED, OT_BACKBONE_ROUTER_STATE_SECONDARY,
     OT_BACKBONE_ROUTER_STATE_PRIMARY}

OT_BACKBONE_ROUTER_MULTICAST_LISTENER_ADDED == "Added"
OT_BACKBONE_ROUTER_MULTICAST_LISTENER_REMOVED == "Removed"

IsPrimary(a) == a.mBackboneRouterState = OT_BACKBONE_ROUTER_STATE_PRIMARY

(* a handler starts with nothing called *)
AgentCall(a, name, event, g, state) ==
    [a EXCEPT !.handler = name, !.event = event, !.group = g, !.state = state,
              !.called = <<>>]

OnBecomePrimary(a, s, fail) ==
    [a |-> [a EXCEPT !.called = Append(@, "Enable")], s |-> SmcEnableOp(s, fail)]

OnResignPrimary(a, s, fail) ==
    [a |-> [a EXCEPT !.called = Append(@, "Disable")], s |-> SmcDisableOp(s, fail)]

(* state is what otBackboneRouterGetState returns *)
HandleBackboneRouterStateOp_NoResign(a, s, state, fail) ==
    LET wasPrimary == IsPrimary(a)
    IN IF ~(a.mBackboneRouterState # state) THEN [a |-> a, s |-> s]
       ELSE LET a1 == [a EXCEPT !.mBackboneRouterState = state]
            IN IF ~wasPrimary /\ IsPrimary(a1) THEN OnBecomePrimary(a1, s, fail)
               ELSE [a |-> a1, s |-> s]

HandleBackboneRouterStateOp(a, s, state, fail) ==
    LET wasPrimary == IsPrimary(a)
    IN IF ~(a.mBackboneRouterState # state) THEN [a |-> a, s |-> s]
       ELSE LET a1 == [a EXCEPT !.mBackboneRouterState = state]
            IN IF ~wasPrimary /\ IsPrimary(a1) THEN OnBecomePrimary(a1, s, fail)
               ELSE IF wasPrimary /\ ~IsPrimary(a1) THEN OnResignPrimary(a1, s, fail)
               ELSE [a |-> a1, s |-> s]

AgentInitOp(a, s, state, fail) ==
    LET a0 == [AgentCall(a, "Init", "", NoAddr, state) EXCEPT !.started = TRUE]
        s1 == SmcInitOp(s, fail)
        a1 == [a0 EXCEPT !.called = Append(@, "Init")]
    IN IF s1.dead THEN [a |-> a1, s |-> s1]
       ELSE HandleBackboneRouterStateOp(a1, s1, state, fail)

HandleBackboneRouterMulticastListenerEventOp(a, s, aEvent, aAddress, fail) ==
    IF ~IsPrimary(a) THEN [a |-> a, s |-> s]
    ELSE IF aEvent = OT_BACKBONE_ROUTER_MULTICAST_LISTENER_ADDED
         THEN [a |-> [a EXCEPT !.called = Append(@, "Add")], s |-> SmcAddOp(s, aAddress, fail)]
         ELSE [a |-> [a EXCEPT !.called = Append(@, "Remove")], s |-> SmcRemoveOp(s, aAddress, fail)]

AgentInit ==
    /\ ~agent.started
    /\ \E state \in BackboneRouterStates : \E fail \in SmcFaults :
          LET r == AgentInitOp(agent, smc, state, fail)
          IN agent' = r.a /\ smc' = r.s
    /\ UNCHANGED <<mMulticastRouterSock, mListenerSet, mMulticastForwardingCache,
                   kSocks, kMfc, now, op, calls, edStage, env, refreshed, loop, queue, libs>>

AgentRunning == agent.started /\ ~smc.dead

(* The Thread stack reports a Backbone Router state *)
HandleBackboneRouterState ==
    /\ AgentRunning
    /\ \E state \in BackboneRouterStates : \E fail \in SmcFaults :
          LET r == HandleBackboneRouterStateOp(AgentCall(agent, "State", "", NoAddr, state),
                                               smc, state, fail)
          IN agent' = r.a /\ smc' = r.s
    /\ UNCHANGED <<mMulticastRouterSock, mListenerSet, mMulticastForwardingCache,
                   kSocks, kMfc, now, op, calls, edStage, env, refreshed, loop, queue, libs>>

(* The Thread stack registers a group that is not in its table, or drops    *)
(* one that is, and emits the event                                         *)
HandleBackboneRouterMulticastListenerEvent ==
    /\ AgentRunning
    /\ \E g \in Groups : \E fail \in SmcFaults :
          LET aEvent == IF g \in agent.table
                        THEN OT_BACKBONE_ROUTER_MULTICAST_LISTENER_REMOVED
                        ELSE OT_BACKBONE_ROUTER_MULTICAST_LISTENER_ADDED
              table == IF g \in agent.table THEN agent.table \ {g} ELSE agent.table \cup {g}
              a0 == [AgentCall(agent, "Listener", aEvent, g, agent.state) EXCEPT !.table = table]
              r == HandleBackboneRouterMulticastListenerEventOp(a0, smc, aEvent, g, fail)
          IN agent' = r.a /\ smc' = r.s
    /\ UNCHANGED <<mMulticastRouterSock, mListenerSet, mMulticastForwardingCache,
                   kSocks, kMfc, now, op, calls, edStage, env, refreshed, loop, queue, libs>>

NextAgent ==
    AgentInit \/ HandleBackboneRouterState \/ HandleBackboneRouterMulticastListenerEvent

SpecAgent == InitSmc /\ [][NextAgent]_vars

(* The same operations with the clock stepping onto the timeout boundary *)
InitBoundary == InitWith(BoundaryEnv)
SpecBoundary == InitBoundary /\ [][Next]_vars

----------------------------------------------------------------------------
(* MulticastRoute::operator< on its own: three routes are drawn, then        *)
(* compared pairwise                                                        *)

FF0E_FC == Ip6(255, 14, 0, 0, 0, 252)         \* ff0e::fc

OrderRoutes ==
    {MulticastRoute(s, g) : s \in Srcs, g \in Groups \cup {FF0E_FC}}

InitOrder ==
    /\ InitManager(NoFaultEnv)
    /\ \E a \in OrderRoutes, b \in OrderRoutes, c \in OrderRoutes :
          cmp = [NoCmp EXCEPT !.a = a, !.b = b, !.c = c]
    /\ proxy = NewProxy
    /\ poller = NewPoller
    /\ addr = NoQuery

Compare ==
    /\ ~cmp.compared
    /\ cmp.a # NoRoute
    /\ cmp' = [cmp EXCEPT !.compared = TRUE,
                          !.ab = MulticastRouteLess(cmp.a, cmp.b),
                          !.ba = MulticastRouteLess(cmp.b, cmp.a),
                          !.bc = MulticastRouteLess(cmp.b, cmp.c),
                          !.ac = MulticastRouteLess(cmp.a, cmp.c)]
    /\ UNCHANGED <<mrm, proxy, poller, addr>>

NextOrder == Compare

SpecOrder == InitOrder /\ [][NextOrder]_vars

----------------------------------------------------------------------------
(* Ip6Address::IsLinkLocal and Ip6Address::GetScope on their own: an         *)
(* address and the host's byte order are drawn, then the address is queried *)

QueryAddrs ==
    {Ip6(b0, b1, 0, 0, 0, b15) : b0 \in {0, 32, 254, 255},
                                 b1 \in {0, 1, 2, 14, 127, 128, 191, 192, 254, 255},
                                 b15 \in {0, 1}}

InitQuery ==
    /\ InitManager(NoFaultEnv)
    /\ cmp = NoCmp
    /\ proxy = NewProxy
    /\ poller = NewPoller
    /\ \E a \in QueryAddrs, littleEndian \in BOOLEAN :
          addr = [a |-> a, littleEndian |-> littleEndian, queried |-> FALSE,
                  isLinkLocal |-> FALSE, scope |-> 0]

Query ==
    /\ addr.a # NoAddr
    /\ ~addr.queried
    /\ addr' = [addr EXCEPT !.queried = TRUE,
                            !.isLinkLocal = IsLinkLocal(addr.a, addr.littleEndian),
                            !.scope = GetScope(addr.a, addr.littleEndian)]
    /\ UNCHANGED <<mrm, cmp, proxy, poller>>

NextQuery == Query

SpecQuery == InitQuery /\ [][NextQuery]_vars

----------------------------------------------------------------------------
(* Poller::UpdateFdSet on its own: the watches, the timers, the clock and    *)
(* the mainloop's timeout are drawn, then the mainloop calls UpdateFdSet.   *)
(* Times are in milliseconds, mTimeout = 0 is a timer that is switched off. *)

AVAHI_WATCH_IN == "IN"
AVAHI_WATCH_OUT == "OUT"
AVAHI_WATCH_ERR == "ERR"

AvahiWatch(aFd, aEvent) == [mFd |-> aFd, mEvents |-> aEvent, mHappened |-> {"stale"}]

(* The watch loop: the descriptors into the sets, the max fd raised *)
RECURSIVE WatchLoop(_, _)
WatchLoop(p, i) ==
    IF i > Len(p.mWatches) THEN p
    ELSE LET fd == p.mWatches[i].mFd
             events == p.mWatches[i].mEvents
         IN WatchLoop(
               [p EXCEPT !.aReadFdSet = IF AVAHI_WATCH_IN \in events THEN @ \cup {fd} ELSE @,
                         !.aWriteFdSet = IF AVAHI_WATCH_OUT \in events THEN @ \cup {fd} ELSE @,
                         !.aErrorFdSet = IF AVAHI_WATCH_ERR \in events THEN @ \cup {fd} ELSE @,
                         !.aMaxFd = IF @ < fd THEN fd ELSE @,
                         !.mWatches[i].mHappened = {}],
               i + 1)

(* The timer loop: it leaves at the first timer that is due *)
RECURSIVE TimerLoop(_, _, _, _)
TimerLoop(mTimers, tnow, aTimeout, i) ==
    IF i > Len(mTimers) THEN aTimeout
    ELSE LET timeout == mTimers[i]
         IN IF timeout = 0 THEN TimerLoop(mTimers, tnow, aTimeout, i + 1)
            ELSE IF timeout - tnow <= 0 THEN [tv_sec |-> 0, tv_usec |-> 0]
            ELSE LET sec == (timeout - tnow) \div 1000
                     usec == ((timeout - tnow) % 1000) * 1000
                 IN TimerLoop(mTimers, tnow,
                              IF sec < aTimeout.tv_sec THEN [aTimeout EXCEPT !.tv_sec = sec]
                              ELSE IF sec = aTimeout.tv_sec /\ usec < aTimeout.tv_usec
                                   THEN [aTimeout EXCEPT !.tv_usec = usec]
                                   ELSE aTimeout,
                              i + 1)

PollerUpdateFdSet(p) ==
    LET p1 == WatchLoop(p, 1)
    IN [p1 EXCEPT !.aTimeout = TimerLoop(p1.mTimers, p1.now, p1.aTimeout, 1),
                  !.updated = TRUE]

(* What the model draws *)
PollerClocks == {1000}
Deadlines == {0, 900, 1000, 2100, 2500}
TimerLists == UNION {[1..n -> Deadlines] : n \in 0..MaxTimers}
WatchLists == {<<>>, <<AvahiWatch(4, {AVAHI_WATCH_IN})>>,
               <<AvahiWatch(5, {AVAHI_WATCH_IN, AVAHI_WATCH_OUT}), AvahiWatch(4, {AVAHI_WATCH_ERR})>>}
Timevals == {[tv_sec |-> s, tv_usec |-> u] : s \in {0, 1, 10}, u \in {0, 500000, 900000}}

InitPoller ==
    /\ InitManager(NoFaultEnv)
    /\ cmp = NoCmp
    /\ proxy = NewProxy
    /\ addr = NoQuery
    /\ \E w \in WatchLists, t \in TimerLists, c \in PollerClocks, tv \in Timevals :
          poller = [NewPoller EXCEPT !.mWatches = w, !.mTimers = t, !.now = c,
                                     !.incoming = tv, !.aTimeout = tv]

MainloopUpdateFdSet ==
    /\ poller.now > 0
    /\ ~poller.updated
    /\ poller' = PollerUpdateFdSet(poller)
    /\ UNCHANGED <<mrm, cmp, proxy, addr>>

NextPoller == MainloopUpdateFdSet

SpecPoller == InitPoller /\ [][NextPoller]_vars

----------------------------------------------------------------------------
(* DiscoveryProxy: the subscriptions of the Thread stack's DNS-SD server,    *)
(* counted per (instance, service, domain), and the mDNS publisher, which    *)
(* holds one subscription per (service, instance).  A full name is kept as   *)
(* the parts that GetDnsNameType and the SplitFull... functions find in it.  *)

kDnsNameTypeService == "Service"
kDnsNameTypeInstance == "Instance"
kDnsNameTypeHost == "Host"
kDnsNameTypeUnknown == "Unknown"

DnsName(nameType, instanceName, serviceName, hostName, domain, wellFormed) ==
    [nameType |-> nameType, instanceName |-> instanceName, serviceName |-> serviceName,
     hostName |-> hostName, domain |-> domain, wellFormed |-> wellFormed]

GetDnsNameType(fullName) == fullName.nameType

(* SplitFullServiceName, SplitFullServiceInstanceName, SplitFullHostName *)
SplitFullName(fullName) ==
    IF ~fullName.wellFormed
    THEN [error |-> "INVALID_ARGS", instanceName |-> "", serviceName |-> "", domain |-> ""]
    ELSE [error |-> "NONE", instanceName |-> fullName.instanceName,
          serviceName |-> fullName.serviceName, domain |-> fullName.domain]

ServiceSubscription(aInstanceName, aServiceName, aDomain) ==
    [mInstanceName |-> aInstanceName, mServiceName |-> aServiceName, mDomain |-> aDomain,
     mSubscriptionCount |-> 1]

(* std::find_if over mSubscribedServices: the index of the first record of  *)
(* this instance, service and domain, or Len + 1 for end()                  *)
RECURSIVE FindSubscription(_, _, _, _, _)
FindSubscription(list, instanceName, serviceName, domain, i) ==
    IF i > Len(list) THEN i
    ELSE IF /\ list[i].mInstanceName = instanceName
            /\ list[i].mServiceName = serviceName
            /\ list[i].mDomain = domain
         THEN i
         ELSE FindSubscription(list, instanceName, serviceName, domain, i + 1)

RECURSIVE Accumulate(_, _, _, _)
Accumulate(list, aInstanceName, aServiceName, i) ==
    IF i > Len(list) THEN 0
    ELSE (IF list[i].mInstanceName = aInstanceName /\ list[i].mServiceName = aServiceName
          THEN list[i].mSubscriptionCount ELSE 0)
         + Accumulate(list, aInstanceName, aServiceName, i + 1)

GetServiceSubscriptionCount(list, aInstanceName, aServiceName) ==
    Accumulate(list, aInstanceName, aServiceName, 1)

Erase(list, i) == SubSeq(list, 1, i - 1) \o SubSeq(list, i + 1, Len(list))

(* The mDNS publisher *)
SubscribeService(p, serviceName, instanceName) ==
    [p EXCEPT !.published = @ \cup {<<serviceName, instanceName>>},
              !.called = Append(@, <<"SubscribeService", serviceName, instanceName>>)]

UnsubscribeService(p, serviceName, instanceName) ==
    [p EXCEPT !.published = @ \ {<<serviceName, instanceName>>},
              !.called = Append(@, <<"UnsubscribeService", serviceName, instanceName>>)]

ProxyCall(p, handler, fullName) ==
    [p EXCEPT !.handler = handler, !.name = fullName, !.called = <<>>, !.error = "NONE"]

OnDiscoveryProxySubscribeOp(p0, fullName) ==
    LET p == ProxyCall(p0, "Subscribe", fullName)
        nameType == GetDnsNameType(fullName)
        n == SplitFullName(fullName)
        it == FindSubscription(p.mSubscribedServices, n.instanceName, n.serviceName, n.domain, 1)
    IN IF nameType \notin {kDnsNameTypeService, kDnsNameTypeInstance}
       THEN [p EXCEPT !.error = "NOT_IMPLEMENTED"]
       ELSE IF n.error # "NONE" THEN [p EXCEPT !.error = n.error]
       ELSE IF it <= Len(p.mSubscribedServices)
       THEN [p EXCEPT !.mSubscribedServices[it].mSubscriptionCount = @ + 1]
       ELSE LET p1 == [p EXCEPT !.mSubscribedServices =
                          Append(@, ServiceSubscription(n.instanceName, n.serviceName, n.domain))]
            IN IF GetServiceSubscriptionCount(p1.mSubscribedServices, n.instanceName, n.serviceName) = 1
               THEN SubscribeService(p1, n.serviceName, n.instanceName)
               ELSE p1

(* After erase(it) the log statement reads the record through it, which no  *)
(* longer refers to a record: the read returns stale bytes and the handler  *)
(* goes on, or the process is stopped there                                 *)
DanglingReads == {"stale", "abort"}

OnDiscoveryProxyUnsubscribeOp(p0, fullName, dangling) ==
    LET p == ProxyCall(p0, "Unsubscribe", fullName)
        nameType == GetDnsNameType(fullName)
        n == SplitFullName(fullName)
        it == FindSubscription(p.mSubscribedServices, n.instanceName, n.serviceName, n.domain, 1)
    IN IF nameType \notin {kDnsNameTypeService, kDnsNameTypeInstance, kDnsNameTypeHost}
       THEN [p EXCEPT !.error = "NOT_IMPLEMENTED"]
       ELSE IF n.error # "NONE" THEN [p EXCEPT !.error = n.error]
       ELSE IF it > Len(p.mSubscribedServices) THEN [p EXCEPT !.error = "NOT_FOUND"]
       ELSE LET erased == p.mSubscribedServices[it].mSubscriptionCount - 1 = 0
                p1 == IF erased
                      THEN [p EXCEPT !.mSubscribedServices = Erase(@, it)]
                      ELSE [p EXCEPT !.mSubscribedServices[it].mSubscriptionCount = @ - 1]
            IN IF erased /\ dangling = "abort" THEN [p1 EXCEPT !.aborted = TRUE]
               ELSE IF GetServiceSubscriptionCount(p1.mSubscribedServices, n.instanceName, n.serviceName) = 0
                    THEN UnsubscribeService(p1, n.serviceName, n.instanceName)
                    ELSE p1

(* The names the Thread stack asks for *)
ProxyInstances == {"inst"}
ProxyServices == {"_a._udp", "_b._udp"}
ProxyDomains == {"default.service.arpa.", "example.com."}

FullNames ==
    {DnsName(kDnsNameTypeService, "", s, "", d, TRUE) : s \in ProxyServices, d \in ProxyDomains}
    \cup {DnsName(kDnsNameTypeInstance, i, s, "", d, TRUE) :
             i \in ProxyInstances, s \in ProxyServices, d \in ProxyDomains}
    \cup {DnsName(kDnsNameTypeHost, "", "", "host", d, TRUE) : d \in ProxyDomains}
    \cup {DnsName(kDnsNameTypeUnknown, "", "", "", "", TRUE),
          DnsName(kDnsNameTypeService, "", "_a._udp", "", "", FALSE)}

RECURSIVE TotalCount(_, _)
TotalCount(list, i) ==
    IF i > Len(list) THEN 0 ELSE list[i].mSubscriptionCount + TotalCount(list, i + 1)

(* Does the unsubscribe of this name erase a record, so that the log reads  *)
(* through the erased iterator                                              *)
ErasesRecord(p, fullName) ==
    LET n == SplitFullName(fullName)
        it == FindSubscription(p.mSubscribedServices, n.instanceName, n.serviceName, n.domain, 1)
    IN /\ GetDnsNameType(fullName) \in {kDnsNameTypeService, kDnsNameTypeInstance, kDnsNameTypeHost}
       /\ n.error = "NONE"
       /\ it <= Len(p.mSubscribedServices)
       /\ p.mSubscribedServices[it].mSubscriptionCount = 1

OnDiscoveryProxySubscribe ==
    /\ ~proxy.aborted
    /\ TotalCount(proxy.mSubscribedServices, 1) < MaxSubscriptions
    /\ \E fullName \in FullNames : proxy' = OnDiscoveryProxySubscribeOp(proxy, fullName)
    /\ UNCHANGED <<mrm, cmp, poller, addr>>

OnDiscoveryProxyUnsubscribe ==
    /\ ~proxy.aborted
    /\ \E fullName \in FullNames :
          \E dangling \in IF ErasesRecord(proxy, fullName) THEN DanglingReads ELSE {"none"} :
             proxy' = OnDiscoveryProxyUnsubscribeOp(proxy, fullName, dangling)
    /\ UNCHANGED <<mrm, cmp, poller, addr>>

NextProxy ==
    \/ OnDiscoveryProxySubscribe
    \/ OnDiscoveryProxyUnsubscribe

InitProxy == InitWith(NoFaultEnv)

SpecProxy == InitProxy /\ [][NextProxy]_vars

----------------------------------------------------------------------------
(* Properties *)

Enabled == IsEnabled(mMulticastRouterSock)
Cache == mMulticastForwardingCache
Inbound(g, r, info) == info.mIif = kMifIndexBackbone /\ r.mGroupAddr = g
CallsNamed(log, name) == {i \in 1..Len(log) : log[i].call = name}
ScopeOf(group) == group[2] % 16

(* C1: whenever the manager is not enabled the in-memory MFC map is empty; *)
(* in particular Disable() on an enabled manager leaves the map empty.      *)
C1_DisabledCacheEmpty == ~Enabled => Cache = EmptyMap

(* C2: in every reachable state every MFC map entry with iif = Backbone and *)
(* oif = Thread has its group in the listener set.                          *)
C2_ForwardedInboundIsListened ==
    \A r \in DOMAIN Cache :
        (Cache[r].mIif = kMifIndexBackbone /\ Cache[r].mOif = kMifIndexThread)
            => r.mGroupAddr \in mListenerSet

(* C3: Remove(g) while enabled removes only the entries with iif = Backbone *)
(* and group = g: every entry of another group, and every entry whose iif   *)
(* is Thread, is still in the map with the same iif and oif afterwards.     *)
C3_RemoveKeepsUnrelated ==
    [][(op'.name = "Remove" /\ op'.wasEnabled) =>
          \A r \in DOMAIN Cache :
              (r.mGroupAddr # op'.group \/ Cache[r].mIif = kMifIndexThread)
                  => /\ r \in DOMAIN Cache'
                     /\ Cache'[r].mIif = Cache[r].mIif
                     /\ Cache'[r].mOif = Cache[r].mOif]_vars

(* C4: after a NOCACHE upcall (src, group, iif) processed while enabled     *)
(* with the kernel install succeeding, the map entry for (src, group) has   *)
(* that iif and oif = Thread if iif = Backbone and group is listened to,    *)
(* None if iif = Backbone and group is not listened to, Backbone if         *)
(* iif = Thread and scope(group) > 0x3, None if iif = Thread and            *)
(* scope(group) <= 0x3; the one MRT6_ADD_MFC issued has parent = iif and    *)
(* ifset = {oif}, or the empty set when oif = None.                         *)
C4_ExpectedOif ==
    IF op.iif = kMifIndexBackbone
    THEN IF op.group \in mListenerSet THEN kMifIndexThread ELSE kMifIndexNone
    ELSE IF ScopeOf(op.group) > 3 THEN kMifIndexBackbone ELSE kMifIndexNone

C4_UpcallPolicy ==
    (op.name = "Process" /\ op.path = "upcall" /\ op.error = "NONE") =>
        LET r == MulticastRoute(op.src, op.group)
            adds == CallsNamed(calls, "MRT6_ADD_MFC")
        IN /\ r \in DOMAIN Cache
           /\ Cache[r].mIif = op.iif
           /\ Cache[r].mOif = C4_ExpectedOif
           /\ adds = {Len(calls)}
           /\ calls[Len(calls)].origin = op.src
           /\ calls[Len(calls)].mcastgrp = op.group
           /\ calls[Len(calls)].parent = op.iif
           /\ calls[Len(calls)].ifset =
                 (IF C4_ExpectedOif = kMifIndexNone THEN {} ELSE {C4_ExpectedOif})

C4_Witness ==
    /\ op.name = "Process" /\ op.path = "upcall" /\ op.error = "NONE"
    /\ op.iif = kMifIndexBackbone /\ op.group \in mListenerSet
    /\ Cache[MulticastRoute(op.src, op.group)].mOif = kMifIndexThread
    /\ \E r \in DOMAIN Cache :
          Cache[r].mIif = kMifIndexThread /\ Cache[r].mOif = kMifIndexNone

(* C5: the entries Add(g) has to unblock, and the call issued for each *)
C5_Blocked(g) ==
    {r \in DOMAIN Cache : Inbound(g, r, Cache[r]) /\ Cache[r].mOif # kMifIndexThread}

C5_UnblockCall(c, r) ==
    /\ c.call = "MRT6_ADD_MFC" /\ c.origin = r.mSrcAddr /\ c.mcastgrp = r.mGroupAddr
    /\ c.parent = kMifIndexBackbone /\ c.ifset = {kMifIndexThread}

C5_Frame(g) ==
    /\ DOMAIN Cache' = DOMAIN Cache
    /\ \A r \in DOMAIN Cache \ C5_Blocked(g) : Cache'[r] = Cache[r]
    /\ Len(calls') = Cardinality(C5_Blocked(g))
    /\ \A r \in C5_Blocked(g) :
          Cardinality({i \in 1..Len(calls') : C5_UnblockCall(calls'[i], r)}) = 1

(* C5 (as stated): Add(g) while enabled rewrites every map entry with       *)
(* iif = Backbone, group = g and oif # Thread to oif = Thread, issuing one  *)
(* MRT6_ADD_MFC with parent = Backbone and ifset = {Thread} for exactly     *)
(* that (src, g); no install is issued for any other entry and no other     *)
(* entry changes.                                                           *)
C5_AddUnblocksAll ==
    [][(op'.name = "Add" /\ op'.wasEnabled) =>
          /\ C5_Frame(op'.group)
          /\ \A r \in C5_Blocked(op'.group) :
                Cache'[r].mIif = kMifIndexBackbone /\ Cache'[r].mOif = kMifIndexThread]_vars

(* C5 (amended): Add(g) while enabled issues one MRT6_ADD_MFC with          *)
(* parent = Backbone and ifset = {Thread} for every map entry with          *)
(* iif = Backbone, group = g and oif # Thread; an entry whose install       *)
(* succeeds is rewritten to oif = Thread, an entry whose install fails is   *)
(* left as it was; no install is issued for any other entry and no other    *)
(* entry changes.                                                           *)
C5_AddUnblocksInstalled ==
    [][(op'.name = "Add" /\ op'.wasEnabled) =>
          /\ C5_Frame(op'.group)
          /\ \A r \in C5_Blocked(op'.group) :
                \A i \in 1..Len(calls') :
                    C5_UnblockCall(calls'[i], r) =>
                        IF calls'[i].ret = "OK"
                        THEN /\ Cache'[r].mIif = kMifIndexBackbone
                             /\ Cache'[r].mOif = kMifIndexThread
                        ELSE Cache'[r] = Cache[r]]_vars

C5_Witness ==
    /\ op.name = "Add" /\ op.wasEnabled
    /\ Len(calls) = 1 /\ calls[1].ret = "OK"
    /\ C5_UnblockCall(calls[1], MulticastRoute(calls[1].origin, op.group))
    /\ Cache[MulticastRoute(calls[1].origin, op.group)].mOif = kMifIndexThread
    /\ \E r \in DOMAIN Cache : r.mGroupAddr # op.group /\ Cache[r].mOif = kMifIndexNone

(* C6: Remove(g) while enabled issues MRT6_DEL_MFC with parent = Backbone   *)
(* for every map entry with iif = Backbone and group = g, and when it       *)
(* returns the map holds no entry with iif = Backbone and group = g.        *)
C6_RemoveDeletesInbound ==
    [][(op'.name = "Remove" /\ op'.wasEnabled) =>
          /\ \A r \in DOMAIN Cache :
                Inbound(op'.group, r, Cache[r]) =>
                    \E i \in CallsNamed(calls', "MRT6_DEL_MFC") :
                        /\ calls'[i].origin = r.mSrcAddr
                        /\ calls'[i].mcastgrp = r.mGroupAddr
                        /\ calls'[i].parent = kMifIndexBackbone
          /\ \A r \in DOMAIN Cache' : ~Inbound(op'.group, r, Cache'[r])]_vars

C6_Witness ==
    /\ op.name = "Remove" /\ op.wasEnabled
    /\ Len(calls) = 1 /\ calls[1].call = "MRT6_DEL_MFC" /\ calls[1].ret = "OK"
    /\ calls[1].mcastgrp = op.group /\ calls[1].parent = kMifIndexBackbone
    /\ MulticastRoute(calls[1].origin, op.group) \notin DOMAIN Cache

(* C7: from any reachable state in which g is not in the listener set,      *)
(* Add(g) followed by Remove(g) leaves the listener set equal to its value  *)
(* before the Add and leaves no MFC map entry with iif = Backbone and       *)
(* group = g.  (After Add(g) the set before the Add is the set without g.)  *)
C7_AddThenRemove ==
    [][(op.name = "Add" /\ op'.name = "Remove" /\ op'.group = op.group) =>
          /\ mListenerSet' = mListenerSet \ {op.group}
          /\ \A r \in DOMAIN Cache' : ~Inbound(op.group, r, Cache'[r])]_vars

(* C8: from any reachable state, Enable(); Disable(); Enable() with the     *)
(* socket set-up succeeding ends with the manager enabled and the MFC map   *)
(* empty.                                                                   *)
C8_EnableDisableEnable == edStage = 3 => (Enabled /\ Cache = EmptyMap)

(* C9: between operations the manager is enabled iff it holds an open       *)
(* router socket, and an open socket has completed all five set-up steps    *)
(* (create, MRT6_INIT, ICMPv6 block-all filter, MIF 0 = Thread,             *)
(* MIF 1 = Backbone); if any step of Enable() fails the socket opened by    *)
(* that call is closed, the descriptor is -1 and the manager is disabled.   *)
C9_SocketOwnership ==
    /\ Enabled <=> mMulticastRouterSock \in DOMAIN kSocks
    /\ DOMAIN kSocks \subseteq {mMulticastRouterSock}
    /\ \A fd \in DOMAIN kSocks :
          /\ kSocks[fd].mrtInit /\ kSocks[fd].filter
          /\ kSocks[fd].mifs = (0 :> "thread" @@ 1 :> "backbone")
    /\ (op.name = "Enable" /\ op.error # "NONE") =>
          /\ mMulticastRouterSock = -1 /\ ~Enabled /\ DOMAIN kSocks = {}
          /\ \A i \in CallsNamed(calls, "socket") :
                calls[i].ret = "OK" =>
                    /\ calls[Len(calls)].call = "close"
                    /\ calls[Len(calls)].arg1 = calls[i].arg1

C9_Witness ==
    /\ op.name = "Enable" /\ op.error # "NONE"
    /\ Len(calls) > 2
    /\ calls[Len(calls) - 1].call = "if_nametoindex_backbone"
    /\ calls[Len(calls)].call = "close"

(* C10: in every reachable state every MFC map entry with iif = Thread and  *)
(* oif = Backbone has a group whose multicast scope is greater than 0x3.    *)
C10_OutboundScope ==
    \A r \in DOMAIN Cache :
        (Cache[r].mIif = kMifIndexThread /\ Cache[r].mOif = kMifIndexBackbone)
            => ScopeOf(r.mGroupAddr) > 3

C10_Witness ==
    /\ \E r \in DOMAIN Cache :
          Cache[r].mIif = kMifIndexThread /\ Cache[r].mOif = kMifIndexBackbone
    /\ \E r \in DOMAIN Cache :
          Cache[r].mIif = kMifIndexThread /\ ScopeOf(r.mGroupAddr) = 3

(* The route an operation names, and a NOCACHE upcall that reached the      *)
(* install                                                                  *)
RouteOf(o) == MulticastRoute(o.src, o.group)
IsUpcall(o) == o.name = "Process" /\ o.path = "upcall"

(* C11: a NOCACHE upcall for a pair already in the map *)
C11_RepeatUpcall == IsUpcall(op') /\ RouteOf(op') \in DOMAIN Cache

C11_Replaced ==
    /\ RouteOf(op') \in DOMAIN Cache'
    /\ Cache'[RouteOf(op')] = [mLastUseTime |-> now', mValidPktCnt |-> 0,
                               mOif |-> C4_ExpectedOif', mIif |-> op'.iif]

C11_NoGrowth == Cardinality(DOMAIN Cache') <= Cardinality(DOMAIN Cache)

(* C11 as stated: the MFC map holds at most one entry per (src, group): a   *)
(* NOCACHE upcall for a pair already in the map replaces that entry's iif   *)
(* and oif with the values computed from the new upcall, with valid_pkt_cnt *)
(* reset to 0 and last_use set to now, and the number of map entries does   *)
(* not grow.                                                                *)
C11_RepeatUpcallReplaces ==
    [][C11_RepeatUpcall => (C11_Replaced /\ C11_NoGrowth)]_vars

(* C11: a NOCACHE upcall for a pair already in the map whose MRT6_ADD_MFC   *)
(* succeeds replaces that entry's iif and oif with the values computed from *)
(* the new upcall, with valid_pkt_cnt reset to 0 and last_use set to now;   *)
(* when the MRT6_ADD_MFC fails the entry, if the expiry pass has not erased *)
(* it, keeps its iif and oif; in both cases the number of map entries does  *)
(* not grow.                                                                *)
C11_RepeatUpcallInstalled ==
    [][C11_RepeatUpcall =>
          /\ op'.error = "NONE" => C11_Replaced
          /\ (op'.error # "NONE" /\ RouteOf(op') \in DOMAIN Cache') =>
                 /\ Cache'[RouteOf(op')].mIif = Cache[RouteOf(op')].mIif
                 /\ Cache'[RouteOf(op')].mOif = Cache[RouteOf(op')].mOif
          /\ C11_NoGrowth]_vars

(* A repeated upcall: the expiry pass refreshed the entry from the kernel   *)
(* counters, and the install then replaced it                               *)
C11_Witness ==
    /\ IsUpcall(op) /\ op.error = "NONE"
    /\ \E i \in CallsNamed(calls, "SIOCGETSGCNT_IN6") :
          /\ calls[i].origin = op.src /\ calls[i].mcastgrp = op.group
          /\ calls[i].ret = "OK" /\ calls[i].arg1 = MaxPkt /\ calls[i].arg2 = 0
    /\ Cache[RouteOf(op)].mValidPktCnt = 0
    /\ Cache[RouteOf(op)].mLastUseTime = now

(* The calls of one kind the last handler issued for a route *)
CallsFor(log, name, r) ==
    {i \in CallsNamed(log, name) : log[i].origin = r.mSrcAddr /\ log[i].mcastgrp = r.mGroupAddr}

(* C12: an entry that an earlier expiry pass refreshed is past the timeout  *)
(* again, and the pass of this step reads the counters that pass read       *)
C12_SameCountersRead(r) ==
    /\ IsUpcall(op')
    /\ r \in DOMAIN refreshed /\ r \in DOMAIN Cache
    /\ IsExpired(Cache[r], now)
    /\ \E i \in CallsFor(calls', "SIOCGETSGCNT_IN6", r) :
          /\ calls'[i].ret = "OK"
          /\ <<calls'[i].arg1, calls'[i].arg2>> = refreshed[r]

(* C12: if one expiry pass refreshes an entry that is past the 300 s        *)
(* timeout, and a later expiry pass, again more than 300 s after the        *)
(* entry's last_use, reads the same kernel counters (pktcnt, wrong_if) as   *)
(* the first pass, then the later pass deletes the entry from the kernel    *)
(* (one MRT6_DEL_MFC for it) and from the map (the entry is absent          *)
(* afterwards unless the upcall of this step installs that very pair); no   *)
(* system call fails in these behaviours.                                   *)
C12_IdleEntryDeleted ==
    [][\A r \in DOMAIN refreshed :
          C12_SameCountersRead(r) =>
              /\ CallsFor(calls', "MRT6_DEL_MFC", r) # {}
              /\ r # RouteOf(op') => (r \notin DOMAIN Cache' /\ r \notin DOMAIN kMfc')]_vars

(* C13: during an expiry pass, if the kernel counter query                  *)
(* (SIOCGETSGCNT_IN6) for an entry past the timeout fails, that entry stays *)
(* in the MFC map with all fields unchanged (unless the upcall of this step *)
(* then installs that very pair) and no MRT6_DEL_MFC is issued for it.      *)
C13_QueryFailureKeepsEntry ==
    [][IsUpcall(op') =>
          \A r \in DOMAIN Cache :
              (\E i \in CallsFor(calls', "SIOCGETSGCNT_IN6", r) : calls'[i].ret # "OK") =>
                  /\ CallsFor(calls', "MRT6_DEL_MFC", r) = {}
                  /\ (r # RouteOf(op') \/ op'.error # "NONE") =>
                         (r \in DOMAIN Cache' /\ Cache'[r] = Cache[r])]_vars

(* C14: while enabled, every entry (src, group) -> (iif, oif) of the        *)
(* in-memory MFC map has a matching kernel MFC entry with the same origin   *)
(* and group, parent = iif and ifset = {oif} (empty when oif = None), the   *)
(* kernel MFC being dropped whenever the router socket is closed, after any *)
(* sequence of Enable, Disable, Add, Remove and upcalls in which no system  *)
(* call fails.                                                              *)
C14_MapMatchesKernel ==
    Enabled =>
        \A r \in DOMAIN Cache :
            /\ r \in DOMAIN kMfc
            /\ kMfc[r] = [parent |-> Cache[r].mIif, ifset |-> IfSet(Cache[r].mOif)]

(* C15: while enabled, no MFC map entry has iif = Backbone, oif = None and  *)
(* a group that is in the listener set, in the behaviours in which no       *)
(* system call fails.                                                       *)
C15_NoBlockedListenedGroup ==
    Enabled =>
        \A r \in DOMAIN Cache :
            ~(/\ Cache[r].mIif = kMifIndexBackbone
              /\ Cache[r].mOif = kMifIndexNone
              /\ r.mGroupAddr \in mListenerSet)

(* C16: the handlers in which an MRT6_ADD_MFC failed *)
C16_UpcallFailed == IsUpcall(op') /\ op'.error = "ERRNO"

C16_FailedUnblocks ==
    {i \in CallsNamed(calls', "MRT6_ADD_MFC") : op'.name = "Add" /\ calls'[i].ret # "OK"}

C16_StaysEnabled ==
    /\ mMulticastRouterSock' = mMulticastRouterSock
    /\ IsEnabled(mMulticastRouterSock')
    /\ mMulticastRouterSock' \in DOMAIN kSocks'

C16_CallRoute(c) == MulticastRoute(c.origin, c.mcastgrp)

(* The unblock scan issues one install per block entry of the group, and    *)
(* an entry whose install fails is left as it was, one whose install        *)
(* succeeds is rewritten                                                    *)
C16_ScanCompleted ==
    /\ Len(calls') = Cardinality(C5_Blocked(op'.group))
    /\ \A i \in 1..Len(calls') :
          LET r == C16_CallRoute(calls'[i])
          IN /\ r \in C5_Blocked(op'.group)
             /\ IF calls'[i].ret = "OK" THEN Cache'[r].mOif = kMifIndexThread
                                        ELSE Cache'[r] = Cache[r]

(* An upcall processed right after a handler in which an install failed *)
C16_LaterUpcall ==
    ((IsUpcall(op) /\ op.error = "ERRNO") \/
     (op.name = "Add" /\ \E i \in CallsNamed(calls, "MRT6_ADD_MFC") : calls[i].ret # "OK"))
    /\ IsUpcall(op') /\ op'.error = "NONE"

(* C16 as stated: if MRT6_ADD_MFC fails while processing an upcall or while *)
(* unblocking an entry in Add(g), the router socket stays open and the      *)
(* manager stays enabled, the map entry for that (src, group) is neither    *)
(* created nor modified, the remaining entries of an unblock scan are still *)
(* processed, and later upcalls are still processed.                        *)
C16_InstallFailureUntouched ==
    [][/\ C16_UpcallFailed =>
             /\ C16_StaysEnabled
             /\ IF RouteOf(op') \in DOMAIN Cache
                THEN RouteOf(op') \in DOMAIN Cache' /\ Cache'[RouteOf(op')] = Cache[RouteOf(op')]
                ELSE RouteOf(op') \notin DOMAIN Cache'
       /\ C16_FailedUnblocks # {} => (C16_StaysEnabled /\ C16_ScanCompleted)
       /\ C16_LaterUpcall => C11_Replaced]_vars

(* C16: if MRT6_ADD_MFC fails while processing an upcall or while           *)
(* unblocking an entry in Add(g), the router socket stays open and the      *)
(* manager stays enabled; the failed install neither creates nor modifies   *)
(* the map entry for that (src, group): after a failed upcall the entry is  *)
(* absent if it was absent, unchanged if it was not past the timeout, and   *)
(* otherwise as the expiry pass run before the install left it (erased, or  *)
(* with the same iif and oif); after a failed unblock it is unchanged; the  *)
(* remaining entries of an unblock scan are still processed, and later      *)
(* upcalls are still processed.                                             *)
C16_InstallFailureContained ==
    [][/\ C16_UpcallFailed =>
             /\ C16_StaysEnabled
             /\ RouteOf(op') \notin DOMAIN Cache => RouteOf(op') \notin DOMAIN Cache'
             /\ (RouteOf(op') \in DOMAIN Cache /\ ~IsExpired(Cache[RouteOf(op')], now)) =>
                    (RouteOf(op') \in DOMAIN Cache' /\ Cache'[RouteOf(op')] = Cache[RouteOf(op')])
             /\ (RouteOf(op') \in DOMAIN Cache /\ RouteOf(op') \in DOMAIN Cache') =>
                    /\ Cache'[RouteOf(op')].mIif = Cache[RouteOf(op')].mIif
                    /\ Cache'[RouteOf(op')].mOif = Cache[RouteOf(op')].mOif
       /\ C16_FailedUnblocks # {} => (C16_StaysEnabled /\ C16_ScanCompleted)
       /\ C16_LaterUpcall => C11_Replaced]_vars

(* An unblock scan over two block entries of one group: the first install   *)
(* failed, the second was still issued and succeeded                        *)
C16_Witness ==
    /\ op.name = "Add" /\ Enabled /\ Len(calls) = 2
    /\ calls[1].call = "MRT6_ADD_MFC" /\ calls[1].ret # "OK"
    /\ calls[2].call = "MRT6_ADD_MFC" /\ calls[2].ret = "OK"
    /\ Cache[C16_CallRoute(calls[1])].mOif = kMifIndexNone
    /\ Cache[C16_CallRoute(calls[2])].mOif = kMifIndexThread

(* C17: what a handler run from the current state leaves of the entries it  *)
(* issued an MRT6_DEL_MFC for                                               *)
C17_DeleteOutcome(m, expiry) ==
    \A i \in CallsNamed(m.calls, "MRT6_DEL_MFC") :
        LET r == C16_CallRoute(m.calls[i])
        IN IF m.calls[i].ret \in {"OK", "ENOENT"}
           THEN r \notin DOMAIN m.mfc
           ELSE expiry => /\ r \in DOMAIN m.mfc
                          /\ m.mfc[r] = Cache[r]
                          /\ IsExpired(m.mfc[r], now)

(* C17: when MRT6_DEL_MFC fails with ENOENT during an expiry pass or during *)
(* Remove(g), the entry is removed from the MFC map exactly as if the       *)
(* delete had succeeded; when it fails during an expiry pass with any other *)
(* errno, the entry stays in the map with its last_use unchanged, so it is  *)
(* still past the timeout for the next expiry pass.                         *)
C17_DeleteErrnoHandled ==
    Enabled =>
        /\ LET S == ExpiredRoutes(Machine, now)
           IN \A q \in QueryOracles(Machine, S) :
                  \A delFail \in Faults(StaleRoutes(Machine, S, now, q)) :
                      C17_DeleteOutcome(ExpireMulticastForwardingCache(Machine, now, q, delFail), TRUE)
        /\ \A g \in mListenerSet :
               \A delFail \in Faults({r \in DOMAIN Cache : r.mGroupAddr = g}) :
                   C17_DeleteOutcome(RemoveOp(Machine, g, delFail), FALSE)

(* An expiry pass has met both errors: one entry the kernel did not have is *)
(* gone from the map, another whose delete failed otherwise is still there, *)
(* past the timeout                                                         *)
C17_Witness ==
    /\ IsUpcall(op)
    /\ \E i, j \in CallsNamed(calls, "MRT6_DEL_MFC") :
          /\ calls[i].ret = "ENOENT"
          /\ C16_CallRoute(calls[i]) \notin DOMAIN Cache
          /\ calls[j].ret = "EOTHER"
          /\ C16_CallRoute(calls[j]) \in DOMAIN Cache
          /\ IsExpired(Cache[C16_CallRoute(calls[j])], now)

(* C18: a handler that issued no system call and changed nothing of the     *)
(* manager or the kernel                                                    *)
C18_NoOp ==
    /\ calls' = <<>>
    /\ UNCHANGED <<mMulticastRouterSock, mListenerSet, mMulticastForwardingCache,
                   kSocks, kMfc>>

(* C18: Disable() on a disabled manager and Enable() on an enabled manager  *)
(* change nothing: Disable() while disabled closes no descriptor, Enable()  *)
(* while enabled opens no second socket and leaves descriptor, listener set *)
(* and MFC map unchanged, and at most one router socket is open at any      *)
(* time.                                                                    *)
C18_RedundantCallsNoOp ==
    [][/\ (op'.name = "Disable" /\ ~Enabled) => C18_NoOp
       /\ (op'.name = "Enable" /\ Enabled) => (C18_NoOp /\ op'.error = "NONE")
       /\ Cardinality(DOMAIN kSocks') <= 1
       /\ IsEnabled(mMulticastRouterSock') => DOMAIN kSocks' = {mMulticastRouterSock'}]_vars

(* Enable() was called on an enabled manager that holds listeners and       *)
(* routes: no call was issued and the one socket is still the router socket *)
C18_Witness ==
    /\ op.name = "Enable" /\ op.wasEnabled /\ calls = <<>>
    /\ Enabled /\ DOMAIN kSocks = {mMulticastRouterSock}
    /\ mListenerSet # {} /\ Cache # EmptyMap

(* C19: a handler that issued no system call and changed neither the        *)
(* descriptor, nor the MFC map, nor the kernel                              *)
C19_OnlyListeners ==
    /\ calls' = <<>>
    /\ UNCHANGED <<mMulticastRouterSock, mMulticastForwardingCache, kSocks, kMfc>>

(* C19: Add(g) and Remove(g) called while the manager is disabled change    *)
(* only the listener set: no kernel call is issued and the MFC map is       *)
(* unchanged; a group added while disabled is honoured after a later        *)
(* Enable(): Enable() keeps the listener set, and a Backbone upcall for a   *)
(* group of the listener set is installed with oif = Thread.                *)
C19_DisabledAddRemove ==
    [][/\ (op'.name = "Add" /\ ~Enabled) =>
             (C19_OnlyListeners /\ mListenerSet' = mListenerSet \cup {op'.group})
       /\ (op'.name = "Remove" /\ ~Enabled) =>
             (C19_OnlyListeners /\ mListenerSet' = mListenerSet \ {op'.group})
       /\ op'.name = "Enable" => mListenerSet' = mListenerSet
       /\ (/\ IsUpcall(op') /\ op'.error = "NONE"
           /\ op'.iif = kMifIndexBackbone /\ op'.group \in mListenerSet) =>
             /\ Cache'[RouteOf(op')].mIif = kMifIndexBackbone
             /\ Cache'[RouteOf(op')].mOif = kMifIndexThread
             /\ calls'[Len(calls')].call = "MRT6_ADD_MFC"
             /\ calls'[Len(calls')].ifset = {kMifIndexThread}]_vars

(* Add(g) was called on a disabled manager whose map still holds a block    *)
(* entry for g: the group is registered, the entry is still blocked and no  *)
(* call was issued                                                          *)
C19_Witness ==
    /\ op.name = "Add" /\ ~op.wasEnabled /\ ~Enabled
    /\ op.group \in mListenerSet
    /\ calls = <<>>
    /\ C5_Blocked(op.group) # {}

(* C20: UpdateFdSet, when enabled, adds exactly the router socket           *)
(* descriptor to the read set and sets max_fd to max(max_fd, descriptor);   *)
(* it never modifies the write set, the error set or the timeout, and when  *)
(* disabled it modifies nothing; it issues no system call and leaves the    *)
(* manager as it was.                                                       *)
C20_UpdateFdSetAddsSocket ==
    [][op'.name = "UpdateFdSet" =>
          /\ C18_NoOp
          /\ IF Enabled
             THEN /\ loop'.read = loop.read \cup {mMulticastRouterSock}
                  /\ loop'.maxFd >= loop.maxFd /\ loop'.maxFd >= mMulticastRouterSock
                  /\ loop'.maxFd \in {loop.maxFd, mMulticastRouterSock}
                  /\ loop'.write = loop.write
                  /\ loop'.error = loop.error
                  /\ loop'.timeout = loop.timeout
             ELSE loop' = loop]_vars

(* UpdateFdSet ran on an enabled manager in an iteration where another user *)
(* holds a larger descriptor: the router socket joined the read set and the *)
(* larger descriptor is still the maximum                                   *)
C20_Witness ==
    /\ op.name = "UpdateFdSet" /\ op.wasEnabled
    /\ loop.read = {mMulticastRouterSock, FirstFreeFd + 1}
    /\ loop.maxFd = FirstFreeFd + 1
    /\ loop.write # {} /\ loop.error # {} /\ loop.timeout # 0

(* ------------------------------------------------------------------------ *)
(* C21: a Process call made while the manager is disabled, or while it is   *)
(* enabled and the router socket is not in the read set, issues no system   *)
(* call at all (so it reads nothing) and leaves the listener set, the MFC   *)
(* map, the socket and the kernel's MFC as they were; as this holds of      *)
(* every such step it holds of any number of repetitions.                   *)
C21_IdleProcessNoOp ==
    [][(op'.name = "Process" /\ (~Enabled \/ ~op'.readable)) => C18_NoOp]_vars

(* an enabled manager holding an expired route was handed a read set        *)
(* without its socket                                                       *)
C21_Witness ==
    /\ op.name = "Process" /\ op.path = "not_readable" /\ ~op.readable
    /\ Enabled
    /\ \E r \in DOMAIN Cache : IsExpired(Cache[r], now)

(* ------------------------------------------------------------------------ *)
(* C30: an upcall whose incoming interface is neither Thread nor Backbone   *)
(* returns INVALID_ARGS and changes nothing: the read of the message is the *)
(* only system call (no counter query and no MRT6_DEL_MFC of an expiry      *)
(* pass, no MRT6_ADD_MFC), and the MFC map, the listener set, the socket    *)
(* and the kernel's MFC are unchanged.                                      *)
C30_InvalidIifRejected ==
    [][(IsUpcall(op') /\ op'.iif \notin {kMifIndexThread, kMifIndexBackbone})
         => /\ op'.error = "INVALID_ARGS"
            /\ Len(calls') = 1 /\ calls'[1].call = "read"
            /\ UNCHANGED <<mMulticastRouterSock, mListenerSet, mMulticastForwardingCache,
                           kSocks, kMfc>>]_vars

(* an upcall with an invalid interface arrived while the map held an        *)
(* expired route, which is still there afterwards                           *)
C30_Witness ==
    /\ IsUpcall(op) /\ op.iif \notin {kMifIndexThread, kMifIndexBackbone}
    /\ op.error = "INVALID_ARGS"
    /\ \E r \in DOMAIN Cache : IsExpired(Cache[r], now)

(* ------------------------------------------------------------------------ *)
(* C28: while the manager is enabled, every route the kernel's MFC holds    *)
(* (each was installed by the manager and not deleted since) has an entry   *)
(* for the same (source, group) in the in-memory MFC map.                   *)
C28_KernelEntriesTracked ==
    Enabled => DOMAIN kMfc \subseteq DOMAIN Cache

(* ------------------------------------------------------------------------ *)
(* C29: with no system call failing, while the manager is enabled the       *)
(* kernel holds no block entry (parent = Backbone, empty ifset) for a group *)
(* that is in the listener set: Add(g) lifted every such entry and none     *)
(* reappears while g stays registered.                                      *)
C29_NoBlockEntryForListener ==
    Enabled =>
        \A r \in DOMAIN kMfc :
            (kMfc[r].parent = kMifIndexBackbone /\ kMfc[r].ifset = {})
                => r.mGroupAddr \notin mListenerSet

(* ------------------------------------------------------------------------ *)
(* C23: once the MulticastRoutingManager object has been destroyed the      *)
(* kernel holds no open router socket, whatever operations came before.     *)
C23_DestroyedSocketClosed ==
    op.name = "Destroy" => DOMAIN kSocks = {}

(* ------------------------------------------------------------------------ *)
(* The route named by the oldest message of the queue *)
C22_HandledRoute == MulticastRoute(Head(queue).im6_src, Head(queue).im6_dst)

(* C22: a Process call on an enabled manager whose socket is readable takes *)
(* exactly the oldest message off the socket's queue with a single read()   *)
(* and issues at most one MRT6_ADD_MFC, which is for the route of that      *)
(* message, adding at most one entry to the MFC map; no other operation of  *)
(* the manager takes a message.  Hence N queued upcalls need N Process      *)
(* calls and are handled in the order of the queue.                         *)
C22_OneMessagePerProcess ==
    [][/\ (op'.name = "Process" /\ Enabled /\ op'.readable)
            => /\ queue # <<>> /\ queue' = Tail(queue)
               /\ Cardinality(CallsNamed(calls', "read")) = 1
               /\ Cardinality(CallsNamed(calls', "MRT6_ADD_MFC")) <= 1
               /\ \A i \in CallsNamed(calls', "MRT6_ADD_MFC") :
                      /\ C16_CallRoute(calls'[i]) = C22_HandledRoute
                      /\ calls'[i].parent = Head(queue).im6_mif
               /\ DOMAIN Cache' \ DOMAIN Cache \subseteq {C22_HandledRoute}
       /\ (op'.name \in {"Add", "Remove", "Tick"} \/ (op'.name = "Process" /\ ~op'.readable))
            => queue' = queue]_vars

(* the first of two queued NOCACHE upcalls was handled and its route        *)
(* installed; the second is still waiting                                   *)
C22_Witness ==
    /\ IsUpcall(op) /\ op.readable /\ op.error = "NONE"
    /\ RouteOf(op) \in DOMAIN Cache
    /\ Len(queue) = MaxQueue - 1
    /\ queue[1].im6_msgtype = MRT6MSG_NOCACHE /\ queue[1].im6_mbz = 0
    /\ queue[1].im6_mif \in {kMifIndexThread, kMifIndexBackbone}
    /\ queue[1].im6_mif # op.iif

(* ------------------------------------------------------------------------ *)
(* The positions of the smcroutectl commands named cmd for group g among    *)
(* the commands of the last SMCRouteManager call                            *)
C25_Cmds(s, cmd, g) == {i \in 1..Len(s.cmds) : s.cmds[i].cmd = cmd /\ s.cmds[i].group = g}

(* C25: SMCRouteManager issues "smcroutectl add <backbone> :: g <thread>"   *)
(* only in calls that leave it enabled; Add(g) on a disabled manager puts g *)
(* in the listener set and runs no command; an Enable() of a disabled       *)
(* manager that returns no error ran exactly one add for every group of the *)
(* listener set, none for another group, and one outbound allow rule; and   *)
(* whenever the manager is enabled and no command has failed so far, the    *)
(* inbound routes installed in the daemon are exactly the listener set.     *)
C25_RoutesOnlyWhileEnabled ==
    [][/\ (\E g \in Groups : C25_Cmds(smc', "add", g) # {}) => smc'.mEnabled
       /\ (smc'.op = "Add" /\ ~smc.mEnabled)
            => /\ smc'.mListenerSet = smc.mListenerSet \cup {smc'.group}
               /\ smc'.cmds = <<>> /\ smc'.routes = smc.routes
       /\ (smc'.op = "Enable" /\ ~smc.mEnabled /\ smc'.error = "NONE")
            => /\ \A g \in Groups :
                     Cardinality(C25_Cmds(smc', "add", g))
                         = (IF g \in smc'.mListenerSet THEN 1 ELSE 0)
               /\ Cardinality(C25_Cmds(smc', "allow", NoAddr)) = 1
       /\ (smc'.mEnabled /\ ~smc'.anyFailed) => smc'.routes = smc'.mListenerSet]_vars

(* an Enable() of a disabled manager holding two listeners succeeded and    *)
(* both routes are installed                                                *)
C25_Witness ==
    /\ smc.op = "Enable" /\ ~smc.wasEnabled /\ smc.error = "NONE" /\ ~smc.anyFailed
    /\ smc.mEnabled /\ smc.mListenerSet = Groups
    /\ smc.routes = Groups /\ smc.outbound

(* ------------------------------------------------------------------------ *)
(* The SMCRouteManager methods the last BackboneAgent handler called *)
C24_Called(a) == {a.called[i] : i \in 1..Len(a.called)}

(* C24: after Init and after every HandleBackboneRouterState (and every     *)
(* other handler of the agent) the route manager is enabled iff the         *)
(* recorded Backbone Router state is Primary; a handler calls Enable        *)
(* exactly when the recorded state goes from a non-primary state to         *)
(* Primary and Disable exactly when it goes from Primary to a non-primary   *)
(* state, so a step between two non-primary states calls neither.           *)
C24_EnabledIffPrimary ==
    [][/\ (agent'.started /\ ~smc'.dead) => (smc'.mEnabled <=> IsPrimary(agent'))
       /\ "Enable" \in C24_Called(agent') <=> (~IsPrimary(agent) /\ IsPrimary(agent'))
       /\ "Disable" \in C24_Called(agent') <=> (IsPrimary(agent) /\ ~IsPrimary(agent'))
       /\ "Enable" \in C24_Called(agent') => (smc'.op = "Enable" /\ ~smc.mEnabled)
       /\ "Disable" \in C24_Called(agent') => (smc'.op = "Disable" /\ smc.mEnabled)]_vars

(* the agent went from Primary to Secondary and disabled the manager *)
C24_Witness ==
    /\ agent.handler = "State" /\ agent.called = <<"Disable">>
    /\ agent.mBackboneRouterState = OT_BACKBONE_ROUTER_STATE_SECONDARY
    /\ smc.op = "Disable" /\ smc.wasEnabled /\ ~smc.mEnabled /\ ~smc.dead

(* ------------------------------------------------------------------------ *)
(* C26: while the agent runs, the listener set of the route manager equals  *)
(* the Thread stack's Multicast Listeners Table, after any sequence of      *)
(* listener events and Backbone Router state changes.                       *)
C26_ListenerSetMirrorsTable ==
    (agent.started /\ ~smc.dead) => smc.mListenerSet = agent.table

(* ------------------------------------------------------------------------ *)
(* C27: with the Thread stack emitting consistent listener events, no       *)
(* assert of the route manager ever fails.                                  *)
C27_AssertsHold == ~smc.asserted

(* ------------------------------------------------------------------------ *)
(* The entries of an expiry pass over S whose counter query q succeeds with *)
(* pktcnt - wrong_if different from the stored mValidPktCnt                 *)
C31_Moved(S, q) ==
    {r \in S : q[r].ok /\ q[r].pktcnt - q[r].wrong_if # Cache[r].mValidPktCnt}

(* C31: an expiry pass run from the current state keeps every entry past   *)
(* the timeout whose counter query succeeds with pktcnt - wrong_if          *)
(* different from the stored mValidPktCnt: its mValidPktCnt becomes the raw *)
(* pktcnt, its mLastUseTime becomes now, its mIif and mOif are unchanged,   *)
(* and no MRT6_DEL_MFC is issued for it.                                    *)
C31_MovedEntryRefreshed ==
    Enabled =>
        LET S == ExpiredRoutes(Machine, now)
        IN \A q \in QueryOracles(Machine, S) :
           \A delFail \in Faults(StaleRoutes(Machine, S, now, q)) :
               LET m2 == ExpireMulticastForwardingCache(Machine, now, q, delFail)
               IN \A r \in C31_Moved(S, q) :
                      /\ r \in DOMAIN m2.mfc
                      /\ m2.mfc[r] = [mLastUseTime |-> now, mValidPktCnt |-> q[r].pktcnt,
                                      mOif |-> Cache[r].mOif, mIif |-> Cache[r].mIif]
                      /\ CallsFor(m2.calls, "MRT6_DEL_MFC", r) = {}

(* an upcall's expiry pass read pktcnt > wrong_if > 0 for another route and *)
(* kept it with the raw pktcnt                                              *)
C31_Witness ==
    /\ IsUpcall(op) /\ op.error = "NONE"
    /\ \E r \in DOMAIN Cache \ {RouteOf(op)} :
          /\ \E i \in CallsFor(calls, "SIOCGETSGCNT_IN6", r) :
                /\ calls[i].ret = "OK" /\ calls[i].arg1 = MaxPkt /\ calls[i].arg2 = MaxWrongIf
          /\ Cache[r].mValidPktCnt = MaxPkt /\ Cache[r].mLastUseTime = now
          /\ CallsFor(calls, "MRT6_DEL_MFC", r) = {}

(* ------------------------------------------------------------------------ *)
(* C32: an expiry pass run from the current state leaves every entry with   *)
(* mLastUseTime + 300 s >= now untouched, an entry exactly 300 s old        *)
(* included: it issues no counter query and no MRT6_DEL_MFC for it and the  *)
(* entry's fields are unchanged.                                            *)
C32_FreshEntryUntouched ==
    Enabled =>
        LET S == ExpiredRoutes(Machine, now)
        IN \A q \in QueryOracles(Machine, S) :
           \A delFail \in Faults(StaleRoutes(Machine, S, now, q)) :
               LET m2 == ExpireMulticastForwardingCache(Machine, now, q, delFail)
               IN \A r \in DOMAIN Cache :
                      Cache[r].mLastUseTime + kMulticastForwardingCacheExpireTimeout >= now
                          => /\ r \in DOMAIN m2.mfc /\ m2.mfc[r] = Cache[r]
                             /\ CallsFor(m2.calls, "SIOCGETSGCNT_IN6", r) = {}
                             /\ CallsFor(m2.calls, "MRT6_DEL_MFC", r) = {}

(* an upcall's expiry pass queried the route of the upcall, which was past  *)
(* the timeout, and left alone another entry that was exactly 300 s old     *)
C32_Witness ==
    /\ IsUpcall(op) /\ op.error = "NONE"
    /\ CallsFor(calls, "SIOCGETSGCNT_IN6", RouteOf(op)) # {}
    /\ \E r \in DOMAIN Cache \ {RouteOf(op)} :
          /\ Cache[r].mLastUseTime + kMulticastForwardingCacheExpireTimeout = now
          /\ CallsFor(calls, "SIOCGETSGCNT_IN6", r) = {}
          /\ CallsFor(calls, "MRT6_DEL_MFC", r) = {}

(* ------------------------------------------------------------------------ *)
(* The counters the manager last saw for an entry: those read by the pass   *)
(* that last refreshed it, or none (0, 0) since its install                 *)
C33_LastSeen(r) == IF r \in DOMAIN refreshed THEN refreshed[r] ELSE <<0, 0>>

(* The expiry pass of this step read for r the counters last seen *)
C33_Unchanged(r) ==
    \E i \in CallsFor(calls', "SIOCGETSGCNT_IN6", r) :
        calls'[i].ret = "OK" /\ <<calls'[i].arg1, calls'[i].arg2>> = C33_LastSeen(r)

(* C33: in the processing of one valid NOCACHE upcall the expiry pass runs, *)
(* whether or not the install then succeeds, and is complete before the     *)
(* MRT6_ADD_MFC: every entry past the timeout is queried before it.  After  *)
(* a successful upcall the map holds the upcall's (src, group) with         *)
(* last_use = now, and every other entry that was past the timeout and      *)
(* whose counters were unchanged is gone from the map.                      *)
C33_ExpiryBeforeInstall ==
    [][/\ (IsUpcall(op') /\ op'.iif \in {kMifIndexThread, kMifIndexBackbone})
            => \A r \in DOMAIN Cache :
                  IsExpired(Cache[r], now)
                     => \E i \in CallsFor(calls', "SIOCGETSGCNT_IN6", r) :
                           \A j \in CallsNamed(calls', "MRT6_ADD_MFC") : i < j
       /\ (IsUpcall(op') /\ op'.error = "NONE")
            => /\ RouteOf(op') \in DOMAIN Cache'
               /\ Cache'[RouteOf(op')].mLastUseTime = now'
               /\ \A r \in DOMAIN Cache \ {RouteOf(op')} :
                     (IsExpired(Cache[r], now) /\ C33_Unchanged(r))
                         => r \notin DOMAIN Cache']_vars

(* ------------------------------------------------------------------------ *)
(* A second expiry pass at the same instant, reading the counters q again,  *)
(* run on the manager m1 the first pass left, with its own delete failures  *)
C34_Again(m1, q, delFail) ==
    ExpireMulticastForwardingCache([m1 EXCEPT !.calls = <<>>], now, q, delFail)

(* the first pass's MRT6_DEL_MFC calls that failed with an errno other than *)
(* ENOENT                                                                   *)
C34_FailedDeletes(m1) ==
    {i \in CallsNamed(m1.calls, "MRT6_DEL_MFC") : m1.calls[i].ret \notin {"OK", "ENOENT"}}

C35_Ignorable ==
    /\ op'.name = "Process" /\ op'.readable
    /\ \/ op'.msg.nr <= 0
       \/ op'.msg.im6_mbz # 0
       \/ op'.msg.im6_msgtype # MRT6MSG_NOCACHE

(* C35: a Process call whose read() returns no data or an error, or         *)
(* delivers a message with im6_mbz # 0 or with im6_msgtype other than       *)
(* MRT6MSG_NOCACHE, issues no system call besides that read(): no counter   *)
(* query, no MRT6_DEL_MFC and no MRT6_ADD_MFC, even with entries past the   *)
(* timeout in the map; the MFC map, the listener set, the socket and the    *)
(* kernel's MFC are unchanged and the manager stays enabled.                *)
C35_IgnoredMessage ==
    [][C35_Ignorable
         => /\ Len(calls') = 1 /\ calls'[1].call = "read"
            /\ UNCHANGED <<mMulticastRouterSock, mListenerSet, mMulticastForwardingCache,
                           kSocks, kMfc>>
            /\ Enabled /\ IsEnabled(mMulticastRouterSock')]_vars

(* a MRT6MSG_WRONGMIF message was read while the map held an entry past the *)
(* timeout, which is still there                                            *)
C35_Witness ==
    /\ op.name = "Process" /\ op.readable /\ op.path = "msgtype"
    /\ op.msg.im6_msgtype = MRT6MSG_WRONGMIF
    /\ Enabled
    /\ \E r \in DOMAIN Cache : IsExpired(Cache[r], now)

(* C36: MulticastRoute::operator< is a strict total order that compares the *)
(* group first and the source second: of a < b, b < a and a = b (same       *)
(* source and same group) exactly one holds, a < b and b < c give a < c,    *)
(* a < b whenever a's group is less than b's whatever the sources, and      *)
(* with equal groups a < b iff a's source is less than b's.                 *)
C36_StrictTotalOrderGroupFirst ==
    cmp.compared =>
        /\ (cmp.ab /\ ~cmp.ba /\ cmp.a # cmp.b)
           \/ (~cmp.ab /\ cmp.ba /\ cmp.a # cmp.b)
           \/ (~cmp.ab /\ ~cmp.ba /\ cmp.a = cmp.b)
        /\ (cmp.ab /\ cmp.bc) => cmp.ac
        /\ Ip6AddressLess(cmp.a.mGroupAddr, cmp.b.mGroupAddr) => cmp.ab
        /\ cmp.a.mGroupAddr = cmp.b.mGroupAddr
              => (cmp.ab <=> Ip6AddressLess(cmp.a.mSrcAddr, cmp.b.mSrcAddr))

(* a < b by the group although b's source is the smaller one, and b < c *)
C36_Witness ==
    /\ cmp.compared /\ cmp.ab /\ cmp.bc /\ cmp.ac
    /\ Ip6AddressLess(cmp.a.mGroupAddr, cmp.b.mGroupAddr)
    /\ Ip6AddressLess(cmp.b.mSrcAddr, cmp.a.mSrcAddr)

(* The prefix fe80::/10: byte 0 is 0xfe and the two high bits of byte 1 are 10 *)
C39_InFe80Slash10(a) == a[1] = 254 /\ a[2] \div 64 = 2

C39_Loopback == Ip6(0, 0, 0, 0, 0, 1)

(* C39: on a little-endian host as on a big-endian one, IsLinkLocal returns *)
(* true exactly for the addresses in fe80::/10, and GetScope returns the    *)
(* low nibble of byte 1 for a multicast address (byte 0 = 0xff), 0x2 for a  *)
(* unicast address in fe80::/10, 0x1 for ::1 and 0xe for any other address. *)
C39_LinkLocalAndScope ==
    addr.queried =>
        /\ addr.isLinkLocal <=> C39_InFe80Slash10(addr.a)
        /\ addr.scope = IF addr.a[1] = 255 THEN addr.a[2] % 16
                        ELSE IF C39_InFe80Slash10(addr.a) THEN 2
                        ELSE IF addr.a = C39_Loopback THEN 1
                        ELSE 14

(* The timers that are switched on, and the microseconds left until one *)
C38_Active == {i \in 1..Len(poller.mTimers) : poller.mTimers[i] # 0}

C38_Remaining(i) ==
    IF poller.mTimers[i] <= poller.now THEN 0
    ELSE (poller.mTimers[i] - poller.now) * 1000

C38_Micros(tv) == tv.tv_sec * 1000000 + tv.tv_usec

(* C38: after Poller::UpdateFdSet returns, the timeout (tv_sec, tv_usec) is *)
(* no greater than the time remaining until the earliest timer with a       *)
(* non-zero deadline, whatever the incoming timeout and the timers; it is   *)
(* (0, 0) when any such timer is already due.                               *)
C38_TimeoutBoundedByEarliestTimer ==
    poller.updated =>
        \A i \in C38_Active :
            /\ C38_Micros(poller.aTimeout) <= C38_Remaining(i)
            /\ poller.mTimers[i] <= poller.now
                  => poller.aTimeout = [tv_sec |-> 0, tv_usec |-> 0]

(* The (service, instance) pairs of the names, the sum of the subscription  *)
(* counts of a pair over all domains, and the publisher calls of a handler  *)
C37_Pairs == {<<n.serviceName, n.instanceName>> : n \in FullNames}

C37_Sum(p, pair) == GetServiceSubscriptionCount(p.mSubscribedServices, pair[2], pair[1])

C37_Called(p, what, pair) ==
    \E i \in 1..Len(p.called) : p.called[i] = <<what, pair[1], pair[2]>>

C37_NoRecord(p, fullName) ==
    \A i \in 1..Len(p.mSubscribedServices) :
        \/ p.mSubscribedServices[i].mInstanceName # fullName.instanceName
        \/ p.mSubscribedServices[i].mServiceName # fullName.serviceName
        \/ p.mSubscribedServices[i].mDomain # fullName.domain

(* C37: in DiscoveryProxy the publisher's subscription for a (service,      *)
(* instance) pair is active iff the sum of the subscription counts of that  *)
(* pair over all domains is greater than 0: a handler calls                 *)
(* SubscribeService exactly when the sum rises from 0 to 1 and              *)
(* UnsubscribeService exactly when it falls to 0, an unsubscribe for a name *)
(* with no matching record changes nothing, and no record with count 0      *)
(* stays in the list.                                                       *)
C37_SubscribedIffCounted ==
    [][/\ \A pair \in C37_Pairs :
             /\ pair \in proxy'.published <=> C37_Sum(proxy', pair) > 0
             /\ C37_Called(proxy', "SubscribeService", pair)
                   <=> (C37_Sum(proxy, pair) = 0 /\ C37_Sum(proxy', pair) = 1)
             /\ C37_Called(proxy', "UnsubscribeService", pair)
                   <=> (C37_Sum(proxy, pair) > 0 /\ C37_Sum(proxy', pair) = 0)
       /\ Len(proxy'.called) <= 1
       /\ \A i \in 1..Len(proxy'.mSubscribedServices) :
             proxy'.mSubscribedServices[i].mSubscriptionCount > 0
       /\ (proxy'.handler = "Unsubscribe" /\ C37_NoRecord(proxy, proxy'.name))
             => /\ proxy'.mSubscribedServices = proxy.mSubscribedServices
                /\ proxy'.published = proxy.published
                /\ proxy'.called = <<>>]_vars

====
